---- MODULE Spec2Model ----
(***************************************************************************)
(* CipherVault browser extension: the popup (App), lib/security and        *)
(* lib/crypto, modelled as a state machine.                                *)
(*                                                                         *)
(* Execution model.  The popup is single-threaded and event driven.  Every *)
(* chrome.storage call, every WebCrypto call and every network call is an  *)
(* await: the handler suspends there and other handlers, timers and user   *)
(* clicks may run.  A storage request takes effect, and a storage read     *)
(* takes its value, when the request is issued (the store serves requests  *)
(* in the order they were issued); the handler's continuation consumes the *)
(* answer in a later step.  Hence one action per continuation: it consumes *)
(* the answers of the requests issued by the previous step, runs the       *)
(* synchronous code up to the next await and issues that await's requests. *)
(***************************************************************************)
EXTENDS Integers, Sequences, FiniteSets, TLC

(***************************************************************************)
(* Program constants (values/constants.ts).                                *)
(***************************************************************************)
MAX_FAILED_ATTEMPTS == 5
MAX_BACKOFF_SECONDS == 300
DEFAULT_LOCK_TIMEOUT_MINS == 5

SESSION_KEY_NAME == "ciphervault_derived_key"
LOCK_TIMEOUT_KEY == "ciphervault_lock_timeout"
PIN_KEY == "ciphervault_pin_hash"
LAST_ACTIVITY_KEY == "ciphervault_last_activity"
FAILED_ATTEMPTS_KEY == "ciphervault_failed_attempts"
LAST_FAILED_TIME_KEY == "ciphervault_last_failed_time"

(***************************************************************************)
(* Bounds of the model.                                                    *)
(***************************************************************************)
\* The reading of Date.now(), in milliseconds: later than any lock timeout
\* counted from the epoch, as every real clock value is.
Now == 2000000
\* loadSecrets invocations in flight at once.
MaxLoads == 1
\* handlePinUnlock invocations in flight at once (Verify PIN clicked again
\* while an invocation is suspended).  The other handlers (handleLogin,
\* handlePinSetup, handleSaveSettings, secureLogout) start when nothing else
\* is in flight.
MaxUnlocks == 2
\* The highest failure count verifyPin writes.  The count passes
\* MAX_FAILED_ATTEMPTS when the popup is closed between the write of the count
\* and clearSecurityData.
MaxCount == 6

\* Inputs the user may type or choose.
Pins == {"1234", "0000"}
PinPairs == {<<"1234", "1234">>, <<"1234", "0000">>, <<"123", "123">>}
Passwords == {"correct horse"}
\* Salts the profile endpoint may return, as the character codes of their
\* text: "c2FsdA==" (valid base64) and "***" (text atob rejects).
Salts == {<<99, 50, 70, 115, 100, 65, 61, 61>>, <<42, 42, 42>>}
TimeoutOptions == {1, 5}
Handlers == {"h1", "h2"}

(***************************************************************************)
(* Key-value stores: a store is a function whose domain is the set of      *)
(* keys present.                                                           *)
(***************************************************************************)
EmptyStore == [k \in {} |-> 0]
Has(store, k) == k \in DOMAIN store
Put(store, k, v) == [q \in (DOMAIN store) \cup {k} |-> IF q = k THEN v ELSE store[q]]
Remove(store, ks) == [q \in (DOMAIN store) \ ks |-> store[q]]
\* (result[KEY] as number) || 0
NumOrZero(store, k) == IF Has(store, k) THEN store[k] ELSE 0

Min(a, b) == IF a < b THEN a ELSE b
Max(a, b) == IF a > b THEN a ELSE b
RECURSIVE Pow2(_)
Pow2(n) == IF n <= 0 THEN 1 ELSE 2 * Pow2(n - 1)
\* Math.ceil(ms / 1000) for ms >= 0
CeilSeconds(ms) == (ms + 999) \div 1000


(***************************************************************************)
(* lib/security: pure parts.                                               *)
(***************************************************************************)
\* A delay one doubling short: 2^(attempts - 1) seconds.
BackoffDelayMs_OneShort(currentAttempts) ==
    Min(Pow2(currentAttempts - 1), MAX_BACKOFF_SECONDS) * 1000

\* The delay getBackoffDelay and isBackoffActive compute from the count read.
BackoffDelayMs(currentAttempts) ==
    Min(Pow2(currentAttempts), MAX_BACKOFF_SECONDS) * 1000

\* getBackoffDelay, given the count its read returns.
getBackoffDelay(currentAttempts) ==
    IF currentAttempts = 0 THEN 0 ELSE BackoffDelayMs(currentAttempts)

\* A gate that compares the wrong way round: active once the window is over.
isBackoffActive_Late(currentAttempts, lastFailedTime, t) ==
    IF currentAttempts = 0
    THEN [active |-> FALSE, remainingMs |-> 0]
    ELSE LET unlockTime == lastFailedTime + BackoffDelayMs(currentAttempts)
         IN  IF t > unlockTime
             THEN [active |-> TRUE, remainingMs |-> t - unlockTime]
             ELSE [active |-> FALSE, remainingMs |-> 0]

\* isBackoffActive, given the two values read and Date.now().
isBackoffActive(currentAttempts, lastFailedTime, t) ==
    IF currentAttempts = 0
    THEN [active |-> FALSE, remainingMs |-> 0]
    ELSE LET unlockTime == lastFailedTime + BackoffDelayMs(currentAttempts)
         IN  IF t < unlockTime
             THEN [active |-> TRUE, remainingMs |-> unlockTime - t]
             ELSE [active |-> FALSE, remainingMs |-> 0]

\* hashPin: SHA-256 over pin + pinSalt, hex encoded.  The digest is kept
\* symbolic: distinct inputs give distinct digests.
PinSalt == "ciphervault_salt"
hashPin(pin) == <<"sha256", pin \o PinSalt>>

\* hasPin: !!stored[PIN_KEY]
hasPin(store) == Has(store, PIN_KEY)

\* getLockTimeout: (result[LOCK_TIMEOUT_KEY] as number) || default
getLockTimeout(store) ==
    IF Has(store, LOCK_TIMEOUT_KEY) /\ store[LOCK_TIMEOUT_KEY] # 0
    THEN store[LOCK_TIMEOUT_KEY]
    ELSE DEFAULT_LOCK_TIMEOUT_MINS

\* An updateLastActivity that replaces the session store by its entry.
updateLastActivity_Alone(store) == [k \in {LAST_ACTIVITY_KEY} |-> Now]

\* updateLastActivity: chrome.storage.session.set({[LAST_ACTIVITY_KEY]: Date.now()})
updateLastActivity(store) == Put(store, LAST_ACTIVITY_KEY, Now)

\* An expiry that includes the boundary instant.
isSessionExpired_Inclusive(lastActivity, timeout, t) ==
    t >= lastActivity + (timeout * 60 * 1000)

\* isSessionExpired, given the activity time read, the timeout and Date.now().
isSessionExpired(lastActivity, timeout, t) ==
    t > lastActivity + (timeout * 60 * 1000)

(***************************************************************************)
(* lib/crypto: keys and their encoding.                                    *)
(***************************************************************************)
\* atob: the byte strings of the base64 texts of the model; other text throws.
\* Texts are sequences of character codes, buffers sequences of bytes.
\* The base64 alphabet: the code of the character of a 6-bit value, and the
\* value of a character (-1 outside the alphabet).
Base64Char(v) ==
    IF v < 26 THEN 65 + v
    ELSE IF v < 52 THEN 97 + (v - 26)
    ELSE IF v < 62 THEN 48 + (v - 52)
    ELSE IF v = 62 THEN 43 ELSE 47
Base64Value(c) ==
    IF c >= 65 /\ c <= 90 THEN c - 65
    ELSE IF c >= 97 /\ c <= 122 THEN c - 71
    ELSE IF c >= 48 /\ c <= 57 THEN c + 4
    ELSE IF c = 43 THEN 62
    ELSE IF c = 47 THEN 63 ELSE -1

\* btoa on a binary string: three bytes give four characters, the last
\* group is padded with "=".
btoa(b) ==
    [i \in 1..(4 * ((Len(b) + 2) \div 3)) |->
        LET k == 3 * ((i - 1) \div 4)
            b1 == b[k + 1]
            b2 == IF k + 2 <= Len(b) THEN b[k + 2] ELSE 0
            b3 == IF k + 3 <= Len(b) THEN b[k + 3] ELSE 0
        IN  CASE (i - 1) % 4 = 0 -> Base64Char(b1 \div 4)
              [] (i - 1) % 4 = 1 -> Base64Char((b1 % 4) * 16 + (b2 \div 16))
              [] (i - 1) % 4 = 2 ->
                   IF k + 2 <= Len(b) THEN Base64Char((b2 % 16) * 4 + (b3 \div 64))
                   ELSE 61
              [] OTHER -> IF k + 3 <= Len(b) THEN Base64Char(b3 % 64) ELSE 61]

\* arrayBufferToBase64: String.fromCharCode of every byte, then btoa.
arrayBufferToBase64(buffer) == btoa(buffer)

\* atob (forgiving base64): ASCII whitespace is removed, one or two "=" at
\* the end of a text of a multiple of four characters are removed, a length
\* of 1 modulo 4 or a character outside the alphabet throws, and the bits
\* left over by the last characters are discarded.
Base64Data(s) ==
    LET t == SelectSeq(s, LAMBDA c : c \notin {9, 10, 12, 13, 32})
    IN  IF Len(t) > 0 /\ Len(t) % 4 = 0 /\ t[Len(t)] = 61
        THEN IF t[Len(t) - 1] = 61
             THEN SubSeq(t, 1, Len(t) - 2) ELSE SubSeq(t, 1, Len(t) - 1)
        ELSE t
Base64Bytes(d) ==
    [j \in 1..((3 * Len(d)) \div 4) |->
        LET c == ((8 * (j - 1)) \div 6) + 1
            v1 == Base64Value(d[c])
            v2 == Base64Value(d[c + 1])
        IN  CASE (8 * (j - 1)) % 6 = 0 -> v1 * 4 + (v2 \div 16)
              [] (8 * (j - 1)) % 6 = 2 -> (v1 % 16) * 16 + (v2 \div 4)
              [] OTHER -> (v1 % 4) * 64 + v2]
\* atob returns (TRUE) or throws InvalidCharacterError (FALSE).
Base64Valid(s) ==
    LET d == Base64Data(s)
    IN  Len(d) % 4 # 1 /\ \A i \in 1..Len(d) : Base64Value(d[i]) >= 0
atob(s) == Base64Bytes(Base64Data(s))

\* base64ToArrayBuffer: atob, then charCodeAt of every character.
base64ToArrayBuffer(s) == atob(s)

\* TextEncoder.encode of a string given as its UTF-16 code units: UTF-8 of
\* its code points, an unpaired surrogate encoded as U+FFFD.
IsHighSurrogate(c) == c >= 55296 /\ c <= 56319
IsLowSurrogate(c) == c >= 56320 /\ c <= 57343
Utf8(cp) ==
    IF cp < 128 THEN <<cp>>
    ELSE IF cp < 2048 THEN <<192 + (cp \div 64), 128 + (cp % 64)>>
    ELSE IF cp < 65536
    THEN <<224 + (cp \div 4096), 128 + ((cp \div 64) % 64), 128 + (cp % 64)>>
    ELSE <<240 + (cp \div 262144), 128 + ((cp \div 4096) % 64),
           128 + ((cp \div 64) % 64), 128 + (cp % 64)>>
\* An encoder that keeps the low byte of every code unit.
TextEncode_LowBytes(s) == [i \in 1..Len(s) |-> s[i] % 256]

RECURSIVE TextEncode(_)
TextEncode(s) ==
    IF Len(s) = 0 THEN <<>>
    ELSE IF IsHighSurrogate(s[1]) /\ Len(s) >= 2 /\ IsLowSurrogate(s[2])
    THEN Utf8(65536 + (s[1] - 55296) * 1024 + (s[2] - 56320))
         \o TextEncode(SubSeq(s, 3, Len(s)))
    ELSE IF IsHighSurrogate(s[1]) \/ IsLowSurrogate(s[1])
    THEN Utf8(65533) \o TextEncode(Tail(s))
    ELSE Utf8(s[1]) \o TextEncode(Tail(s))

\* new TextDecoder().decode: UTF-8, not fatal (a byte that starts no valid
\* sequence gives U+FFFD), a leading byte order mark EF BB BF removed.
RECURSIVE Utf8Decode(_)
Utf8Decode(b) ==
    IF Len(b) = 0 THEN <<>>
    ELSE IF b[1] < 128 THEN <<b[1]>> \o Utf8Decode(Tail(b))
    ELSE LET n == IF b[1] >= 194 /\ b[1] <= 223 THEN 2
                  ELSE IF b[1] >= 224 /\ b[1] <= 239 THEN 3
                  ELSE IF b[1] >= 240 /\ b[1] <= 244 THEN 4 ELSE 0
             complete == n > 0 /\ Len(b) >= n
                         /\ \A i \in 2..n : b[i] >= 128 /\ b[i] <= 191
             cp == IF n = 2 THEN (b[1] - 192) * 64 + (b[2] - 128)
                   ELSE IF n = 3
                   THEN (b[1] - 224) * 4096 + (b[2] - 128) * 64 + (b[3] - 128)
                   ELSE (b[1] - 240) * 262144 + (b[2] - 128) * 4096
                        + (b[3] - 128) * 64 + (b[4] - 128)
             valid == complete
                      /\ cp >= (IF n = 2 THEN 128 ELSE IF n = 3 THEN 2048 ELSE 65536)
                      /\ cp <= 1114111
                      /\ ~(IsHighSurrogate(cp) \/ IsLowSurrogate(cp))
             units == IF cp < 65536 THEN <<cp>>
                      ELSE <<55296 + ((cp - 65536) \div 1024),
                             56320 + ((cp - 65536) % 1024)>>
         IN  IF valid THEN units \o Utf8Decode(SubSeq(b, n + 1, Len(b)))
             ELSE <<65533>> \o Utf8Decode(Tail(b))
TextDecode(b) ==
    IF Len(b) >= 3 /\ SubSeq(b, 1, 3) = <<239, 187, 191>>
    THEN Utf8Decode(SubSeq(b, 4, Len(b))) ELSE Utf8Decode(b)

\* AES-GCM of crypto.subtle as an ideal authenticated cipher over buffers:
\* encrypt returns the data followed by a tag, and the tag determines the
\* key, the iv and the data (no two of them share a tag); decrypt succeeds
\* exactly on what encrypt returned for the same key and iv.  Secrecy of the
\* data is not modelled, and the bits of a key are a number here.
AesGcmEncrypt(key, iv, data) ==
    data \o <<key.bits, Len(iv)>> \o iv \o <<Len(data)>> \o data
AesGcmDecrypt(key, iv, encrypted) ==
    SubSeq(encrypted, 1, (Len(encrypted) - 3 - Len(iv)) \div 2)
AesGcmAccepts(key, iv, encrypted) ==
    /\ Len(encrypted) >= 3 + Len(iv)
    /\ encrypted = AesGcmEncrypt(key, iv, AesGcmDecrypt(key, iv, encrypted))

\* encryptData, iv being what crypto.getRandomValues gave.
encryptData(key, plaintext, iv) ==
    [encrypted |-> arrayBufferToBase64(AesGcmEncrypt(key, iv, TextEncode(plaintext))),
     iv |-> arrayBufferToBase64(iv)]

\* decryptData: the plaintext, or the exception thrown by atob or by
\* crypto.subtle.decrypt.
decryptData(key, encryptedBase64, ivBase64) ==
    IF ~Base64Valid(encryptedBase64) \/ ~Base64Valid(ivBase64)
    THEN [ok |-> FALSE, error |-> "InvalidCharacterError"]
    ELSE LET encrypted == base64ToArrayBuffer(encryptedBase64)
             iv == base64ToArrayBuffer(ivBase64)
         IN  IF AesGcmAccepts(key, iv, encrypted)
             THEN [ok |-> TRUE, plaintext |-> TextDecode(AesGcmDecrypt(key, iv, encrypted))]
             ELSE [ok |-> FALSE, error |-> "OperationError"]

\* deriveKey: PBKDF2 then an AES-GCM key, created with extractable = false.
\* The derived bits are kept symbolic as the pair of inputs.
deriveKey(password, salt) ==
    [alg |-> "AES-GCM", bits |-> <<password, salt>>, extractable |-> FALSE]

\* crypto.subtle.exportKey("jwk", key) followed by JSON.stringify.
KeyJson(key) == <<"jwk", [kty |-> "oct", alg |-> "A256GCM", k |-> key.bits]>>

\* The answers of exportKey("jwk", key).  WebCrypto rejects the export of a
\* key created non-extractable; the code after the export is written for a
\* completed export.  For such a key both answers are kept.
ExportAnswers(key) ==
    IF key.extractable THEN {"exported"} ELSE {"rejected", "exported"}

\* A getKeyFromSession that always finds a key.
getKeyFromSession_Always(store) ==
    <<[alg |-> "AES-GCM", bits |-> <<"", <<>>>>, extractable |-> TRUE]>>

\* getKeyFromSession after its read: absent entry gives null, otherwise
\* JSON.parse and importKey (extractable = true).
NoKey == <<>>
getKeyFromSession(store) ==
    IF Has(store, SESSION_KEY_NAME)
    THEN <<[alg |-> "AES-GCM", bits |-> store[SESSION_KEY_NAME][2].k,
            extractable |-> TRUE]>>
    ELSE NoKey


(***************************************************************************)
(* State.                                                                  *)
(***************************************************************************)
VARIABLES
    local,    \* chrome.storage.local (durable)
    session,  \* chrome.storage.session (volatile, one browser session)
    popup,    \* React state of App; screen = "closed" when no popup is open
    check,    \* the init effect: checkSession, then getLockTimeout
    unlock,   \* handlePinUnlock invocations in flight, one per handler slot
    login,    \* handleLogin in flight
    setup,    \* handlePinSetup in flight
    save,     \* handleSaveSettings in flight
    loads,    \* loadSecrets invocations in flight
    logout,   \* secureLogout in flight
    last,     \* history: the step just taken, <<name, number>>, when it
              \* leaves its invocation suspended; NoStep otherwise
    auth      \* history: how this popup has authenticated; since it was
              \* opened (.opened) and since it was opened or locked (.locked);
              \* and whether clearSecurityData has wiped the PIN (.wiped:
              \* "wiped", "relogged" once a login has stored a key after it,
              \* "no" from the next setPin on)

vars == <<local, session, popup, check, unlock, login, setup, save, loads, logout, last, auth>>

\* The library functions the popup calls with no state of its own are
\* specified apart from it, each with the state of its calls:
VARIABLES
    cipher,   \* encryptData / decryptData (lib/crypto): a call and its data
    listing,  \* loadSecrets (App): the fetched list and its decryptions
    clip,     \* copyToClipboard (lib/security): the clipboard and the timers
    match     \* checkDomainMatch (lib/security): a call and its result

sidevars == <<cipher, listing, clip, match>>

NoAuth == [opened |-> {}, locked |-> {}, wiped |-> "no"]
\* The history of a popup that has just been opened or closed.
Reopened(a) == [NoAuth EXCEPT !.wiped = a.wiped]
Authenticated(a, how) ==
    [a EXCEPT !.opened = @ \cup {how}, !.locked = @ \cup {how},
              !.wiped = IF how = "login" /\ @ = "wiped" THEN "relogged" ELSE @]

NoError == <<"", 0>>
\* A step the history does not record.
NoStep == <<"", 0>>

\* useState initial values of App; screen "closed" stands for no popup.
ClosedPopup ==
    [screen |-> "closed", error |-> NoError, loading |-> FALSE,
     backoffRemaining |-> 0, backoffSetAt |-> 0, lockTimeout |-> 5,
     password |-> "", masterPassword |-> "", secrets |-> <<>>]

IdleCheck == [pc |-> "idle", pinSet |-> FALSE, la |-> 0, timeout |-> 0,
              expired |-> FALSE, key |-> NoKey]
\* nth, alone and matched are history: the count this invocation wrote (its
\* failure is the nth in a row), whether no other invocation was in flight
\* with it, and whether the hash of its PIN was the stored one.
IdleUnlock == [pc |-> "idle", pin |-> "", attempts |-> 0, lastFailed |-> 0,
               stored |-> <<>>, key |-> NoKey, nth |-> 0, alone |-> TRUE,
               matched |-> FALSE]
\* The invocation u suspended at pc, the locals it does not read again dropped.
Suspended(u, pc) ==
    [IdleUnlock EXCEPT !.pc = pc, !.nth = u.nth, !.alone = u.alone,
                       !.matched = u.matched]
IdleLogin == [pc |-> "idle", password |-> "", key |-> NoKey, pinSet |-> FALSE]
IdleSetup == [pc |-> "idle", pin |-> ""]
IdleSave == [pc |-> "idle"]
NoLoads == [fetching |-> 0, decrypting |-> <<>>]

\* No call of the library function is under way.
NoCall == [pc |-> "none"]

\* The popup, the handlers and the two storage areas after installation.
PopupInit ==
    /\ local = EmptyStore
    /\ session = EmptyStore
    /\ popup = ClosedPopup
    /\ check = IdleCheck
    /\ unlock = [h \in Handlers |-> IdleUnlock]
    /\ login = IdleLogin
    /\ setup = IdleSetup
    /\ save = IdleSave
    /\ loads = NoLoads
    /\ logout = "idle"
    /\ last = NoStep
    /\ auth = NoAuth

Init ==
    /\ PopupInit
    /\ cipher = NoCall
    /\ listing = NoCall
    /\ clip = NoCall
    /\ match = NoCall

Open == popup.screen # "closed"

(***************************************************************************)
(* The countdown of backoffRemaining: an interval takes 1000 off every     *)
(* 1000 ms while it is positive (App, the backoffRemaining effect).        *)
(* popup.backoffRemaining keeps the value last set, popup.backoffSetAt     *)
(* when; the value on display is BackoffCountdown.                         *)
(***************************************************************************)
BackoffCountdown(p, t) ==
    Max(0, p.backoffRemaining - 1000 * ((t - p.backoffSetAt) \div 1000))

(***************************************************************************)
(* Time.  The code compares clock readings only through their differences  *)
(* (a recorded instant against Date.now()).  The model keeps the reading   *)
(* of the clock at Now and lets d milliseconds pass by moving every        *)
(* recorded instant d milliseconds into the past.  Time advances to the    *)
(* instants where a comparison of the code changes its answer: the end of  *)
(* a backoff window, the session expiry and the millisecond after it.  A   *)
(* wait is taken when it leaves every recorded instant at such a point or  *)
(* past its window, and the countdown at 0.  The awaits of a handler are   *)
(* short against these windows: time passes while no continuation is       *)
(* pending.                                                                *)
(***************************************************************************)
Quiescent ==
    /\ check.pc = "idle"
    /\ \A h \in Handlers : unlock[h].pc = "idle"
    /\ login.pc = "idle"
    /\ setup.pc = "idle"
    /\ save.pc = "idle"
    /\ logout = "idle"
    /\ loads = NoLoads

Unlocking == Cardinality({h \in Handlers : unlock[h].pc # "idle"})
Busy ==
    \/ check.pc # "idle"
    \/ login.pc # "idle"
    \/ setup.pc # "idle"
    \/ save.pc # "idle"
    \/ logout # "idle"
CanStart == ~Busy /\ Unlocking = 0
CanStartUnlock == ~Busy /\ Unlocking < MaxUnlocks

\* The end of the backoff window, the session expiry, the end of the countdown.
BackoffEnd ==
    IF NumOrZero(local, FAILED_ATTEMPTS_KEY) > 0
    THEN {NumOrZero(local, LAST_FAILED_TIME_KEY)
            + BackoffDelayMs(NumOrZero(local, FAILED_ATTEMPTS_KEY))}
    ELSE {}
SessionExpiry ==
    {NumOrZero(session, LAST_ACTIVITY_KEY) + getLockTimeout(local) * 60 * 1000}
CountdownEnd ==
    IF popup.backoffRemaining > 0
    THEN {popup.backoffSetAt + CeilSeconds(popup.backoffRemaining) * 1000}
    ELSE {}

Durations ==
    {d \in {b - Now : b \in BackoffEnd}
            \cup {b + e - Now : b \in SessionExpiry, e \in {0, 1}}
            \cup {b - Now : b \in CountdownEnd} : d > 0}

\* An instant older than the window it is compared with answers the
\* comparison as any older one does: it is kept one millisecond past.  The
\* failure time is compared with the delay of the count stored beside it
\* (a higher count is only ever written together with a new failure time),
\* the activity time with the lock timeout, which Settings may change.
BackoffWindow ==
    IF NumOrZero(local, FAILED_ATTEMPTS_KEY) > 0
    THEN BackoffDelayMs(NumOrZero(local, FAILED_ATTEMPTS_KEY))
    ELSE 0
LongestTimeout ==
    CHOOSE m \in TimeoutOptions \cup {DEFAULT_LOCK_TIMEOUT_MINS} :
        \A o \in TimeoutOptions \cup {DEFAULT_LOCK_TIMEOUT_MINS} : o <= m
SessionWindow == LongestTimeout * 60 * 1000

Aged(store, k, d, window) ==
    IF Has(store, k)
    THEN Put(store, k, Max(store[k] - d, Now - window - 1))
    ELSE store

\* After d milliseconds: the failure time at the end of its window or past
\* it, the activity time at an expiry instant, the one after, or past the
\* longest timeout, the countdown at 0.
BackoffSettled(d) ==
    \/ BackoffWindow = 0
    \/ Now - (NumOrZero(local, LAST_FAILED_TIME_KEY) - d) >= BackoffWindow
SessionSettled(d) ==
    LET age == Now - (NumOrZero(session, LAST_ACTIVITY_KEY) - d)
    IN  \/ ~Has(session, LAST_ACTIVITY_KEY)
        \/ age > SessionWindow
        \/ \E m \in TimeoutOptions \cup {DEFAULT_LOCK_TIMEOUT_MINS}, e \in {0, 1} :
              age = m * 60 * 1000 + e
CountdownSettled(d) ==
    BackoffCountdown(popup, Now + d) = 0

Tick ==
    /\ Quiescent
    /\ \E d \in Durations :
        /\ BackoffSettled(d)
        /\ SessionSettled(d)
        /\ CountdownSettled(d)
        /\ local' = Aged(local, LAST_FAILED_TIME_KEY, d, BackoffWindow)
        /\ session' = Aged(session, LAST_ACTIVITY_KEY, d, SessionWindow)
        /\ popup' = [popup EXCEPT !.backoffRemaining = 0, !.backoffSetAt = 0]
        /\ last' = NoStep
    /\ UNCHANGED <<check, unlock, login, setup, save, loads, logout, auth>>
    /\ UNCHANGED sidevars

(***************************************************************************)
(* loadSecrets (App).  fetching: the number of invocations waiting for     *)
(* fetchSecrets; decrypting: the keys of those decrypting.                 *)
(***************************************************************************)
CanLoad == loads.fetching + Len(loads.decrypting) < MaxLoads
\* The call loadSecrets(): runs up to the await of fetchSecrets.
loadSecrets(l) == [l EXCEPT !.fetching = @ + 1]
DropAt(seq, i) == SubSeq(seq, 1, i - 1) \o SubSeq(seq, i + 1, Len(seq))

\* fetchSecrets threw: console.error, nothing else.
Load_FetchFailed ==
    /\ loads.fetching > 0
    /\ loads' = [loads EXCEPT !.fetching = @ - 1]
    /\ last' = NoStep
    /\ UNCHANGED <<local, session, popup, check, unlock, login, setup, save, auth, logout>>
    /\ UNCHANGED sidevars

\* fetchSecrets answered: getKeyFromSession reads the cached key; without a
\* key the function returns, with one it starts decrypting.
Load_GetKey ==
    /\ loads.fetching > 0
    /\ LET key == getKeyFromSession(session)
       IN  /\ loads' = [loads EXCEPT !.fetching = @ - 1, !.decrypting = @ \o key]
           /\ last' = IF key = NoKey THEN NoStep ELSE <<"Load_GetKey", 1>>
    /\ UNCHANGED <<local, session, popup, check, unlock, login, setup, save, auth, logout>>
    /\ UNCHANGED sidevars

\* The decryptions ended: setSecrets(decrypted).
Load_SetSecrets ==
    /\ \E i \in 1..Len(loads.decrypting) :
        /\ loads' = [loads EXCEPT !.decrypting = DropAt(@, i)]
        /\ popup' = [popup EXCEPT !.secrets = <<"listed">>]
    /\ last' = NoStep
    /\ UNCHANGED <<local, session, check, unlock, login, setup, save, auth, logout>>
    /\ UNCHANGED sidevars

(***************************************************************************)
(* The popup's life and the browser session.                               *)
(***************************************************************************)
\* Opening the popup mounts App: the init effect calls checkSession, which
\* runs up to the await of hasPin.
OpenPopup ==
    /\ ~Open
    /\ popup' = [ClosedPopup EXCEPT !.screen = "loading"]
    /\ check' = [IdleCheck EXCEPT !.pc = "hasPin", !.pinSet = hasPin(local)]
    /\ auth' = Reopened(auth)
    /\ last' = NoStep
    /\ UNCHANGED <<local, session, unlock, login, setup, save, loads, logout>>
    /\ UNCHANGED sidevars

\* Closing the popup destroys the page: its state and its pending
\* continuations are gone; the stores stay.
ClosePopup ==
    /\ Open
    /\ popup' = ClosedPopup
    /\ check' = IdleCheck
    /\ unlock' = [h \in Handlers |-> IdleUnlock]
    /\ login' = IdleLogin
    /\ setup' = IdleSetup
    /\ save' = IdleSave
    /\ loads' = NoLoads
    /\ auth' = Reopened(auth)
    /\ last' = NoStep
    /\ UNCHANGED <<local, session, logout>>
    /\ UNCHANGED sidevars

\* A session end that also empties the durable store.
SessionEnd_ClearsDurable ==
    /\ session' = EmptyStore
    /\ local' = EmptyStore
    /\ popup' = ClosedPopup
    /\ check' = IdleCheck
    /\ unlock' = [h \in Handlers |-> IdleUnlock]
    /\ login' = IdleLogin
    /\ setup' = IdleSetup
    /\ save' = IdleSave
    /\ loads' = NoLoads
    /\ auth' = Reopened(auth)
    /\ last' = NoStep
    /\ logout' = "idle"
    /\ UNCHANGED sidevars

\* The browser session ends: the volatile store is emptied, any popup is gone.
SessionEnd ==
    /\ session' = EmptyStore
    /\ popup' = ClosedPopup
    /\ check' = IdleCheck
    /\ unlock' = [h \in Handlers |-> IdleUnlock]
    /\ login' = IdleLogin
    /\ setup' = IdleSetup
    /\ save' = IdleSave
    /\ loads' = NoLoads
    /\ auth' = Reopened(auth)
    /\ last' = NoStep
    /\ UNCHANGED <<local>>
    /\ logout' = "idle"
    /\ UNCHANGED sidevars

(***************************************************************************)
(* secureLogout (lib/crypto).  No handler of the popup calls it; another   *)
(* page of the extension may.                                              *)
(***************************************************************************)
\* secureLogout runs up to the await of clearKeyFromSession, which issues
\* its removal.
clearKeyFromSession ==
    /\ logout = "idle"
    /\ CanStart
    /\ session # EmptyStore
    /\ session' = Remove(session, {SESSION_KEY_NAME})
    /\ logout' = "clearKeyFromSession"
    /\ last' = <<"clearKeyFromSession", 0>>
    /\ UNCHANGED <<local, popup, check, unlock, login, setup, save, loads, auth>>
    /\ UNCHANGED sidevars

\* chrome.storage.session.clear()
secureLogout_Clear ==
    /\ logout = "clearKeyFromSession"
    /\ session' = EmptyStore
    /\ logout' = "idle"
    /\ last' = NoStep
    /\ UNCHANGED <<local, popup, check, unlock, login, setup, save, loads, auth>>
    /\ UNCHANGED sidevars

(***************************************************************************)
(* The init effect of App: checkSession, then getLockTimeout.              *)
(***************************************************************************)
\* hasPin answered; isSessionExpired issues its two reads.
Check_IsSessionExpired ==
    /\ check.pc = "hasPin"
    /\ check' = [check EXCEPT !.pc = "isSessionExpired",
                              !.la = NumOrZero(session, LAST_ACTIVITY_KEY),
                              !.timeout = getLockTimeout(local)]
    /\ last' = NoStep
    /\ UNCHANGED <<local, session, popup, unlock, login, setup, save, loads, logout, auth>>
    /\ UNCHANGED sidevars

\* The reads answered: isSessionExpired compares with Date.now();
\* getKeyFromSession issues its read.
Check_GetKey ==
    /\ check.pc = "isSessionExpired"
    /\ check' = [IdleCheck EXCEPT !.pc = "getKey", !.pinSet = check.pinSet,
                                  !.expired = isSessionExpired(check.la, check.timeout, Now),
                                  !.key = getKeyFromSession(session)]
    /\ last' = NoStep
    /\ UNCHANGED <<local, session, popup, unlock, login, setup, save, loads, logout, auth>>
    /\ UNCHANGED sidevars

\* checkSession chooses the screen; init goes on to getLockTimeout.
checkSession_Route ==
    /\ check.pc = "getKey"
    /\ IF check.pinSet /\ ~check.expired /\ check.key # NoKey
       THEN /\ CanLoad
            /\ loads' = loadSecrets(loads)
            /\ popup' = [popup EXCEPT !.screen = "main"]
            /\ auth' = Authenticated(auth, "session")
       ELSE /\ popup' = [popup EXCEPT !.screen =
                            IF check.pinSet THEN "pin-unlock" ELSE "login"]
            /\ UNCHANGED <<loads, auth>>
    /\ check' = [IdleCheck EXCEPT !.pc = "getLockTimeout",
                                  !.timeout = getLockTimeout(local)]
    /\ last' = NoStep
    /\ UNCHANGED <<local, session, unlock, login, setup, save, logout>>
    /\ UNCHANGED sidevars

\* setLockTimeoutState(timeout)
Init_SetLockTimeoutState ==
    /\ check.pc = "getLockTimeout"
    /\ popup' = [popup EXCEPT !.lockTimeout = check.timeout]
    /\ check' = IdleCheck
    /\ last' = NoStep
    /\ UNCHANGED <<local, session, unlock, login, setup, save, loads, logout, auth>>
    /\ UNCHANGED sidevars

(***************************************************************************)
(* handlePinUnlock (App) with verifyPin, isBackoffActive, getBackoffDelay  *)
(* and clearSecurityData (lib/security) inlined at their awaits.           *)
(***************************************************************************)
BackoffMessage(remainingMs) ==
    <<"Brute-force protection: Please wait (s)", CeilSeconds(remainingMs)>>

\* Click on Verify PIN (enabled while the countdown shows 0): the handler
\* runs up to the await in isBackoffActive, which issues its two reads.
ClickVerifyPin(h) ==
    /\ popup.screen = "pin-unlock"
    /\ CanStartUnlock
    /\ BackoffCountdown(popup, Now) = 0
    /\ unlock[h].pc = "idle"
    /\ \E p \in Pins :
        unlock' = [g \in Handlers |->
            IF g = h
            THEN [IdleUnlock EXCEPT !.pc = "isBackoffActive", !.pin = p,
                     !.attempts = NumOrZero(local, FAILED_ATTEMPTS_KEY),
                     !.lastFailed = NumOrZero(local, LAST_FAILED_TIME_KEY),
                     !.alone = (Unlocking = 0)]
            ELSE IF unlock[g].pc # "idle"
            THEN [unlock[g] EXCEPT !.alone = FALSE]
            ELSE unlock[g]]
    /\ last' = NoStep
    /\ UNCHANGED <<local, session, popup, check, login, setup, save, loads, logout, auth>>
    /\ UNCHANGED sidevars

\* isBackoffActive answered.  Active: the attempt is rejected.  Otherwise
\* verifyPin starts and issues its read of the stored hash.
Unlock_BackoffGate(h) ==
    /\ unlock[h].pc = "isBackoffActive"
    /\ LET backoff == isBackoffActive(unlock[h].attempts, unlock[h].lastFailed, Now)
       IN  IF backoff.active
           THEN /\ popup' = [popup EXCEPT !.backoffRemaining = backoff.remainingMs,
                                          !.backoffSetAt = Now,
                                          !.error = BackoffMessage(backoff.remainingMs)]
                /\ unlock' = [unlock EXCEPT ![h] = IdleUnlock]
                /\ last' = NoStep
           ELSE /\ unlock' = [unlock EXCEPT ![h] =
                        [Suspended(unlock[h], "verifyPin") EXCEPT !.pin = unlock[h].pin,
                            !.stored = IF Has(local, PIN_KEY)
                                       THEN local[PIN_KEY] ELSE <<>>]]
                /\ last' = <<"Unlock_Accepted", 0>>
                /\ UNCHANGED popup
    /\ UNCHANGED <<local, session, check, login, setup, save, loads, logout, auth>>
    /\ UNCHANGED sidevars

\* A comparison that accepts every PIN.
PinMatches_Always(stored, hash) == TRUE

\* verifyPin: stored[PIN_KEY] === hash
PinMatches(stored, hash) == stored = hash

\* A success that leaves the count as it is.
ResetFailedAttempts_Skipped(store) == store

\* verifyPin on a match: chrome.storage.local.set({[FAILED_ATTEMPTS_KEY]: 0})
ResetFailedAttempts(store) == Put(store, FAILED_ATTEMPTS_KEY, 0)

\* verifyPin: the stored hash and hashPin(pin) are there and are compared.
\* Equal: the count is set to 0.  Otherwise the count is read.  The history
\* auth records a PIN whose hash is the stored one.
verifyPin_Compare(h) ==
    /\ unlock[h].pc = "verifyPin"
    /\ IF PinMatches(unlock[h].stored, hashPin(unlock[h].pin))
       THEN /\ local' = ResetFailedAttempts(local)
            /\ unlock' = [unlock EXCEPT ![h] =
                   [Suspended(unlock[h], "updateLastActivity") EXCEPT
                       !.matched = (unlock[h].stored = hashPin(unlock[h].pin))]]
            /\ auth' = IF unlock[h].stored = hashPin(unlock[h].pin)
                       THEN Authenticated(auth, "pin") ELSE auth
            /\ last' = <<"verifyPin_Match", NumOrZero(local, FAILED_ATTEMPTS_KEY)>>
       ELSE /\ unlock' = [unlock EXCEPT ![h] =
                   [Suspended(unlock[h], "increment") EXCEPT
                       !.attempts = NumOrZero(local, FAILED_ATTEMPTS_KEY)]]
            /\ last' = <<"verifyPin_Mismatch", 0>>
            /\ UNCHANGED <<local, auth>>
    /\ UNCHANGED <<session, popup, check, login, setup, save, loads, logout>>
    /\ UNCHANGED sidevars

\* verifyPin, PIN matched: updateLastActivity.
verifyPin_UpdateLastActivity(h) ==
    /\ unlock[h].pc = "updateLastActivity"
    /\ session' = updateLastActivity(session)
    /\ unlock' = [unlock EXCEPT ![h].pc = "verified"]
    /\ last' = NoStep
    /\ UNCHANGED <<local, popup, check, login, setup, save, loads, logout, auth>>
    /\ UNCHANGED sidevars

\* verifyPin returned true: getKeyFromSession issues its read.
Unlock_GetKey(h) ==
    /\ unlock[h].pc = "verified"
    /\ unlock' = [unlock EXCEPT ![h].pc = "route",
                                ![h].key = getKeyFromSession(session)]
    /\ last' = NoStep
    /\ UNCHANGED <<local, session, popup, check, login, setup, save, loads, logout, auth>>
    /\ UNCHANGED sidevars

\* With a key the main view opens; without one the login view.
Unlock_Route(h) ==
    /\ unlock[h].pc = "route"
    /\ IF unlock[h].key # NoKey
       THEN /\ CanLoad
            /\ loads' = loadSecrets(loads)
            /\ popup' = [popup EXCEPT !.screen = "main"]
       ELSE /\ popup' = [popup EXCEPT !.screen = "login",
                            !.error = <<"Session expired. Please login again.", 0>>]
            /\ UNCHANGED loads
    /\ unlock' = [unlock EXCEPT ![h] = IdleUnlock]
    /\ last' = NoStep
    /\ UNCHANGED <<local, session, check, login, setup, save, auth, logout>>
    /\ UNCHANGED sidevars

\* verifyPin, PIN did not match, the count is there: count + 1 and the time
\* of the failure are written.
verifyPin_Increment(h) ==
    /\ unlock[h].pc = "increment"
    /\ unlock[h].attempts < MaxCount
    /\ LET newAttempts == unlock[h].attempts + 1
       IN  /\ local' = Put(Put(local, FAILED_ATTEMPTS_KEY, newAttempts),
                           LAST_FAILED_TIME_KEY, Now)
           /\ unlock' = [unlock EXCEPT ![h].pc = "written", ![h].attempts = newAttempts,
                                       ![h].nth = newAttempts]
           /\ last' = <<"verifyPin_Increment", newAttempts>>
    /\ UNCHANGED <<session, popup, check, login, setup, save, loads, logout, auth>>
    /\ UNCHANGED sidevars

\* The two chrome.storage.local.remove keys of clearSecurityData.
ClearedLocalKeys == {PIN_KEY, FAILED_ATTEMPTS_KEY}

\* verifyPin after the write: at MAX_FAILED_ATTEMPTS clearSecurityData
\* starts with its removal from the durable store; below it verifyPin
\* returns false and getBackoffDelay issues its read.
verifyPin_CheckMax(h) ==
    /\ unlock[h].pc = "written"
    /\ IF unlock[h].attempts >= MAX_FAILED_ATTEMPTS
       THEN /\ local' = Remove(local, ClearedLocalKeys)
            /\ unlock' = [unlock EXCEPT ![h] = Suspended(unlock[h], "clearSession")]
            /\ last' = <<"clearSecurityData_Local", unlock[h].attempts>>
            /\ auth' = [auth EXCEPT !.wiped = "wiped"]
       ELSE /\ unlock' = [unlock EXCEPT ![h].pc = "getBackoffDelay",
                             ![h].attempts = NumOrZero(local, FAILED_ATTEMPTS_KEY)]
            /\ last' = <<"verifyPin_False", unlock[h].attempts>>
            /\ UNCHANGED <<local, auth>>
    /\ UNCHANGED <<session, popup, check, login, setup, save, loads, logout>>
    /\ UNCHANGED sidevars

\* clearSecurityData: chrome.storage.session.clear().
clearSecurityData_Session(h) ==
    /\ unlock[h].pc = "clearSession"
    /\ session' = EmptyStore
    /\ unlock' = [unlock EXCEPT ![h].pc = "cleared"]
    /\ last' = <<"clearSecurityData_Session",
                 IF Has(session, SESSION_KEY_NAME) THEN 1 ELSE 0>>
    /\ UNCHANGED <<local, popup, check, login, setup, save, loads, logout, auth>>
    /\ UNCHANGED sidevars

\* clearSecurityData ended, verifyPin returns false: getBackoffDelay issues
\* its read.
Unlock_AfterClear(h) ==
    /\ unlock[h].pc = "cleared"
    /\ unlock' = [unlock EXCEPT ![h].pc = "getBackoffDelay",
                                ![h].attempts = NumOrZero(local, FAILED_ATTEMPTS_KEY)]
    /\ last' = NoStep
    /\ UNCHANGED <<local, session, popup, check, login, setup, save, loads, logout, auth>>
    /\ UNCHANGED sidevars

\* getBackoffDelay answered: the feedback for an invalid PIN.
Unlock_Invalid(h) ==
    /\ unlock[h].pc = "getBackoffDelay"
    /\ LET waitTime == getBackoffDelay(unlock[h].attempts)
       IN  popup' = IF waitTime > 0
                    THEN [popup EXCEPT !.backoffRemaining = waitTime,
                             !.backoffSetAt = Now,
                             !.error = <<"Invalid PIN. Backoff active (s)", waitTime \div 1000>>]
                    ELSE [popup EXCEPT !.error =
                             <<"Invalid PIN. 5 failed attempts will clear data.", 0>>]
    /\ unlock' = [unlock EXCEPT ![h] = IdleUnlock]
    /\ last' = NoStep
    /\ UNCHANGED <<local, session, check, login, setup, save, loads, logout, auth>>
    /\ UNCHANGED sidevars


(***************************************************************************)
(* handleLogin (App) with login (lib/api) and initializeUserKey,           *)
(* storeKeyInSession (lib/crypto) inlined at their awaits.                 *)
(***************************************************************************)
\* A failure of the login that shows nothing.
LoginFailed_Silent(p, msg) == [p EXCEPT !.loading = FALSE]

LoginFailed(p, msg) == [p EXCEPT !.error = <<msg, 0>>, !.loading = FALSE]

\* Click on Unlock Vault (disabled while loading) with a password typed:
\* login() runs up to the await of the sign-in request.
ClickLogin ==
    /\ popup.screen = "login"
    /\ CanStart
    /\ ~popup.loading
    /\ login.pc = "idle"
    /\ \E pw \in Passwords :
        /\ popup' = [popup EXCEPT !.password = pw, !.loading = TRUE, !.error = NoError]
        /\ login' = [IdleLogin EXCEPT !.pc = "signIn", !.password = pw]
    /\ last' = NoStep
    /\ UNCHANGED <<local, session, check, unlock, setup, save, loads, logout, auth>>
    /\ UNCHANGED sidevars

\* The sign-in request failed: login returns the error, handleLogin shows it.
Login_SignInFailed ==
    /\ login.pc = "signIn"
    /\ popup' = LoginFailed(popup, "[AUTH_INVALID_CREDENTIALS] sign-in failed")
    /\ login' = IdleLogin
    /\ last' = NoStep
    /\ UNCHANGED <<local, session, check, unlock, setup, save, loads, logout, auth>>
    /\ UNCHANGED sidevars

\* Signed in: fetchUserProfile issues its request.
Login_SignedIn ==
    /\ login.pc = "signIn"
    /\ login' = [login EXCEPT !.pc = "profile"]
    /\ last' = NoStep
    /\ UNCHANGED <<local, session, popup, check, unlock, setup, save, loads, logout, auth>>
    /\ UNCHANGED sidevars

\* No profile or an empty salt: login returns a failure.
Login_NoSalt ==
    /\ login.pc = "profile"
    /\ popup' = LoginFailed(popup,
          "[AUTH_INVALID_CREDENTIALS] Authentication succeeded but encryption salt is missing.")
    /\ login' = IdleLogin
    /\ last' = NoStep
    /\ UNCHANGED <<local, session, check, unlock, setup, save, loads, logout, auth>>
    /\ UNCHANGED sidevars

\* A salt arrived: initializeUserKey decodes it (atob throws on text that is
\* not base64: handleLogin's catch shows the message) and derives the key.
Login_Salt ==
    /\ login.pc = "profile"
    /\ \E salt \in Salts :
        IF Base64Valid(salt)
        THEN /\ login' = [login EXCEPT !.pc = "deriveKey",
                             !.key = <<deriveKey(login.password, base64ToArrayBuffer(salt))>>]
             /\ last' = NoStep
             /\ UNCHANGED popup
        ELSE /\ popup' = LoginFailed(popup, "[5] The string to be decoded is not correctly encoded.")
             /\ login' = IdleLogin
             /\ last' = NoStep
    /\ UNCHANGED <<local, session, check, unlock, setup, save, loads, logout, auth>>
    /\ UNCHANGED sidevars

\* A storeKeyInSession that writes the key to the durable area.
storeKeyInSession_Durable(areas, key) ==
    [areas EXCEPT !.local = Put(@, SESSION_KEY_NAME, KeyJson(key))]

\* storeKeyInSession after the export, on the storage areas of the browser:
\* chrome.storage.session.set({[SESSION_KEY_NAME]: JSON.stringify(exported)})
storeKeyInSession(areas, key) ==
    [areas EXCEPT !.session = Put(@, SESSION_KEY_NAME, KeyJson(key))]

\* storeKeyInSession: exportKey answered.  Rejected: handleLogin's catch
\* shows the message.  Exported: the key is written to the session store.
Login_StoreKey ==
    /\ login.pc = "deriveKey"
    /\ \E answer \in ExportAnswers(login.key[1]) :
        IF answer = "exported"
        THEN /\ LET areas == storeKeyInSession([local |-> local, session |-> session],
                                               login.key[1])
                IN  local' = areas.local /\ session' = areas.session
             /\ login' = [login EXCEPT !.pc = "stored", !.key = NoKey]
             /\ auth' = Authenticated(auth, "login")
             /\ last' = <<"Login_StoreKey", 0>>
             /\ UNCHANGED popup
        ELSE /\ popup' = LoginFailed(popup, "[15] key is not extractable")
             /\ login' = IdleLogin
             /\ last' = NoStep
             /\ UNCHANGED <<local, session, auth>>
    /\ UNCHANGED <<check, unlock, setup, save, loads, logout>>
    /\ UNCHANGED sidevars

\* initializeUserKey returned: setMasterPassword(password), updateLastActivity.
Login_UpdateLastActivity ==
    /\ login.pc = "stored"
    /\ popup' = [popup EXCEPT !.masterPassword = login.password]
    /\ session' = updateLastActivity(session)
    /\ login' = [login EXCEPT !.pc = "updateLastActivity", !.password = ""]
    /\ last' = NoStep
    /\ UNCHANGED <<local, check, unlock, setup, save, loads, logout, auth>>
    /\ UNCHANGED sidevars

\* hasPin issues its read.
Login_HasPin ==
    /\ login.pc = "updateLastActivity"
    /\ login' = [login EXCEPT !.pc = "hasPin", !.pinSet = hasPin(local)]
    /\ last' = NoStep
    /\ UNCHANGED <<local, session, popup, check, unlock, setup, save, loads, logout, auth>>
    /\ UNCHANGED sidevars

\* Without a PIN the pin-setup view, with one the main view.
handleLogin_Route ==
    /\ login.pc = "hasPin"
    /\ IF login.pinSet
       THEN /\ CanLoad
            /\ loads' = loadSecrets(loads)
            /\ popup' = [popup EXCEPT !.screen = "main", !.loading = FALSE]
       ELSE /\ popup' = [popup EXCEPT !.screen = "pin-setup", !.loading = FALSE]
            /\ UNCHANGED loads
    /\ login' = IdleLogin
    /\ last' = NoStep
    /\ UNCHANGED <<local, session, check, unlock, setup, save, auth, logout>>
    /\ UNCHANGED sidevars

(***************************************************************************)
(* handlePinSetup (App) with setPin (lib/security).                        *)
(***************************************************************************)
\* Click on Set PIN with the two fields filled: the checks, then setPin runs
\* up to the await of hashPin.
ClickSetPin ==
    /\ popup.screen = "pin-setup"
    /\ CanStart
    /\ setup.pc = "idle"
    /\ \E pair \in PinPairs :
        LET newPin == pair[1]
            confirmPin == pair[2]
        IN  IF Len(newPin) < 4 \/ Len(newPin) > 6
            THEN /\ popup' = [popup EXCEPT !.error = <<"PIN must be 4-6 digits", 0>>]
                 /\ UNCHANGED setup
            ELSE IF newPin # confirmPin
            THEN /\ popup' = [popup EXCEPT !.error = <<"PINs do not match", 0>>]
                 /\ UNCHANGED setup
            ELSE /\ setup' = [pc |-> "hashPin", pin |-> newPin]
                 /\ UNCHANGED popup
    /\ last' = NoStep
    /\ UNCHANGED <<local, session, check, unlock, login, save, loads, logout, auth>>
    /\ UNCHANGED sidevars

\* setPin: the hash is there and is written.
setPin_Store ==
    /\ setup.pc = "hashPin"
    /\ local' = Put(local, PIN_KEY, hashPin(setup.pin))
    /\ setup' = [setup EXCEPT !.pc = "setPin"]
    /\ auth' = [auth EXCEPT !.wiped = "no"]
    /\ last' = NoStep
    /\ UNCHANGED <<session, popup, check, unlock, login, save, loads, logout>>
    /\ UNCHANGED sidevars

\* updateLastActivity
Setup_UpdateLastActivity ==
    /\ setup.pc = "setPin"
    /\ session' = updateLastActivity(session)
    /\ setup' = [setup EXCEPT !.pc = "updateLastActivity"]
    /\ last' = NoStep
    /\ UNCHANGED <<local, popup, check, unlock, login, save, loads, logout, auth>>
    /\ UNCHANGED sidevars

\* setMasterPassword(""), loadSecrets(), setScreen('main')
handlePinSetup_Finish ==
    /\ setup.pc = "updateLastActivity"
    /\ CanLoad
    /\ loads' = loadSecrets(loads)
    /\ popup' = [popup EXCEPT !.masterPassword = "", !.screen = "main"]
    /\ setup' = IdleSetup
    /\ last' = NoStep
    /\ UNCHANGED <<local, session, check, unlock, login, save, auth, logout>>
    /\ UNCHANGED sidevars

(***************************************************************************)
(* Buttons of the views and handleSaveSettings (App).                      *)
(***************************************************************************)
ClickRefresh ==
    /\ popup.screen = "main"
    /\ CanLoad
    /\ loads' = loadSecrets(loads)
    /\ last' = NoStep
    /\ UNCHANGED <<local, session, popup, check, unlock, login, setup, save, auth, logout>>
    /\ UNCHANGED sidevars

ClickSettings ==
    /\ popup.screen = "main"
    /\ popup' = [popup EXCEPT !.screen = "settings"]
    /\ last' = NoStep
    /\ UNCHANGED <<local, session, check, unlock, login, setup, save, loads, logout, auth>>
    /\ UNCHANGED sidevars

SelectLockTimeout ==
    /\ popup.screen = "settings"
    /\ \E m \in TimeoutOptions \ {popup.lockTimeout} :
        popup' = [popup EXCEPT !.lockTimeout = m]
    /\ last' = NoStep
    /\ UNCHANGED <<local, session, check, unlock, login, setup, save, loads, logout, auth>>
    /\ UNCHANGED sidevars

\* handleSaveSettings: setLockTimeout issues its write.
ClickSaveSettings ==
    /\ popup.screen = "settings"
    /\ CanStart
    /\ save.pc = "idle"
    /\ local' = Put(local, LOCK_TIMEOUT_KEY, popup.lockTimeout)
    /\ save' = [pc |-> "setLockTimeout"]
    /\ last' = NoStep
    /\ UNCHANGED <<session, popup, check, unlock, login, setup, loads, auth, logout>>
    /\ UNCHANGED sidevars

handleSaveSettings_Done ==
    /\ save.pc = "setLockTimeout"
    /\ popup' = [popup EXCEPT !.screen = "main"]
    /\ save' = IdleSave
    /\ last' = NoStep
    /\ UNCHANGED <<local, session, check, unlock, login, setup, loads, auth, logout>>
    /\ UNCHANGED sidevars

ClickGoBack ==
    /\ popup.screen = "settings"
    /\ popup' = [popup EXCEPT !.screen = "main"]
    /\ last' = NoStep
    /\ UNCHANGED <<local, session, check, unlock, login, setup, save, loads, logout, auth>>
    /\ UNCHANGED sidevars

\* Lock Vault: setScreen('login')
ClickLockVault ==
    /\ popup.screen = "settings"
    /\ popup' = [popup EXCEPT !.screen = "login"]
    /\ auth' = [auth EXCEPT !.locked = {}]
    /\ last' = NoStep
    /\ UNCHANGED <<local, session, check, unlock, login, setup, save, loads, logout>>
    /\ UNCHANGED sidevars

\* Use Master Password: setScreen('login')
ClickUseMasterPassword ==
    /\ popup.screen = "pin-unlock"
    /\ popup' = [popup EXCEPT !.screen = "login"]
    /\ last' = NoStep
    /\ UNCHANGED <<local, session, check, unlock, login, setup, save, loads, logout, auth>>
    /\ UNCHANGED sidevars

(***************************************************************************)
(* The specification.                                                      *)
(***************************************************************************)
Next ==
    \/ Tick
    \/ OpenPopup
    \/ ClosePopup
    \/ SessionEnd
    \/ clearKeyFromSession
    \/ secureLogout_Clear
    \/ Check_IsSessionExpired
    \/ Check_GetKey
    \/ checkSession_Route
    \/ Init_SetLockTimeoutState
    \/ \E h \in Handlers : ClickVerifyPin(h)
    \/ \E h \in Handlers : Unlock_BackoffGate(h)
    \/ \E h \in Handlers : verifyPin_Compare(h)
    \/ \E h \in Handlers : verifyPin_UpdateLastActivity(h)
    \/ \E h \in Handlers : Unlock_GetKey(h)
    \/ \E h \in Handlers : Unlock_Route(h)
    \/ \E h \in Handlers : verifyPin_Increment(h)
    \/ \E h \in Handlers : verifyPin_CheckMax(h)
    \/ \E h \in Handlers : clearSecurityData_Session(h)
    \/ \E h \in Handlers : Unlock_AfterClear(h)
    \/ \E h \in Handlers : Unlock_Invalid(h)
    \/ ClickLogin
    \/ Login_SignInFailed
    \/ Login_SignedIn
    \/ Login_NoSalt
    \/ Login_Salt
    \/ Login_StoreKey
    \/ Login_UpdateLastActivity
    \/ Login_HasPin
    \/ handleLogin_Route
    \/ ClickSetPin
    \/ setPin_Store
    \/ Setup_UpdateLastActivity
    \/ handlePinSetup_Finish
    \/ Load_FetchFailed
    \/ Load_GetKey
    \/ Load_SetSecrets
    \/ ClickRefresh
    \/ ClickSettings
    \/ SelectLockTimeout
    \/ ClickSaveSettings
    \/ handleSaveSettings_Done
    \/ ClickGoBack
    \/ ClickLockVault
    \/ ClickUseMasterPassword

Spec == Init /\ [][Next]_vars

(***************************************************************************)
(* encryptData and decryptData (lib/crypto.ts) on their own: one plaintext *)
(* is encrypted under one key, the key or one of the two returned texts is *)
(* possibly replaced, and the result is decrypted.                          *)
(***************************************************************************)
IV_LENGTH == 12

\* Inputs: "", "A", "e acute", "euro sign", an emoji (a surrogate pair),
\* "{}", an unpaired surrogate, and a text starting with U+FEFF.
Plaintexts ==
    {<<>>, <<65>>, <<233>>, <<8364>>, <<55357, 56832>>, <<123, 125>>,
     <<55296>>, <<65279, 65>>}
CipherKeys == {[alg |-> "AES-GCM", bits |-> b, extractable |-> TRUE] : b \in {1, 2}}
Ivs == {[i \in 1..IV_LENGTH |-> 0], [i \in 1..IV_LENGTH |-> (17 * i) % 256]}

\* Ways a base64 text can differ from t: another first character, the last
\* character dropped, a space in front, the padding dropped, an invalid
\* character appended, and, for a padded text, a last character that
\* differs only in the bits the decoder discards.
Alterations(t) ==
    LET n == Len(t)
        body == Base64Data(t)
        m == Len(body)
    IN  ({[t EXCEPT ![1] = Base64Char((Base64Value(t[1]) + 1) % 64)],
          SubSeq(t, 1, n - 1),
          <<32>> \o t,
          body,
          t \o <<42>>}
         \cup {[t EXCEPT ![m] = Base64Char(Base64Value(t[m]) + 1)] :
                  x \in {y \in {m} : m < n /\ Base64Value(t[m]) % 2 = 0}})
        \ {t}

CipherCall(k, p) ==
    [pc |-> "call", key |-> k, plaintext |-> p, encrypted |-> <<>>, iv |-> <<>>,
     with |-> k, given |-> [encrypted |-> <<>>, iv |-> <<>>], changed |-> "nothing",
     result |-> [ok |-> FALSE, error |-> "none"]]

InitCipher ==
    /\ PopupInit
    /\ cipher \in {CipherCall(k, p) : k \in CipherKeys, p \in Plaintexts}
    /\ listing = NoCall
    /\ clip = NoCall
    /\ match = NoCall

Cipher_Encrypt ==
    /\ cipher.pc = "call"
    /\ \E iv \in Ivs :
         LET out == encryptData(cipher.key, cipher.plaintext, iv)
         IN  cipher' = [cipher EXCEPT !.pc = "encrypted",
                                      !.encrypted = out.encrypted, !.iv = out.iv,
                                      !.given = out]
    /\ UNCHANGED <<vars, listing, clip, match>>

Cipher_OtherKey ==
    /\ cipher.pc = "encrypted"
    /\ \E k \in CipherKeys \ {cipher.key} :
         cipher' = [cipher EXCEPT !.pc = "altered", !.with = k, !.changed = "key"]
    /\ UNCHANGED <<vars, listing, clip, match>>

Cipher_AlterCiphertext ==
    /\ cipher.pc = "encrypted"
    /\ \E t \in Alterations(cipher.encrypted) :
         cipher' = [cipher EXCEPT !.pc = "altered", !.given.encrypted = t,
                                  !.changed = "ciphertext"]
    /\ UNCHANGED <<vars, listing, clip, match>>

Cipher_AlterNonce ==
    /\ cipher.pc = "encrypted"
    /\ \E t \in Alterations(cipher.iv) :
         cipher' = [cipher EXCEPT !.pc = "altered", !.given.iv = t,
                                  !.changed = "nonce"]
    /\ UNCHANGED <<vars, listing, clip, match>>

Cipher_Decrypt ==
    /\ cipher.pc \in {"encrypted", "altered"}
    /\ cipher' = [cipher EXCEPT
                    !.pc = "decrypted",
                    !.result = decryptData(cipher.with, cipher.given.encrypted,
                                           cipher.given.iv)]
    /\ UNCHANGED <<vars, listing, clip, match>>

NextCipher ==
    \/ Cipher_Encrypt
    \/ Cipher_OtherKey
    \/ Cipher_AlterCiphertext
    \/ Cipher_AlterNonce
    \/ Cipher_Decrypt

SpecCipher == InitCipher /\ [][NextCipher]_cipher

(***************************************************************************)
(* The decryption of the fetched list in loadSecrets (App): one callback   *)
(* per fetched secret, settled in any order, collected by Promise.all and  *)
(* handed to setSecrets.  Strings are sequences of UTF-16 code units.      *)
(***************************************************************************)
MaxSecrets == 3

\* The id of the fetched secret at position i: 6, 9, 12, ... digits.
SecretId(i) == [j \in 1..(3 * i + 3) |-> 48 + ((i + j) % 10)]

\* The payloads that were encrypted, by kind: an object with name, username
\* and password; one without name; the text null; a text that is no JSON.
Payload(kind) ==
    CASE kind = "unnamed" -> \* {"username":"u","password":"p"}
           <<123, 34, 117, 115, 101, 114, 110, 97, 109, 101, 34, 58, 34, 117, 34, 44, 34, 112, 97, 115, 115, 119, 111, 114, 100, 34, 58, 34, 112, 34, 125>>
      [] kind = "null" -> <<110, 117, 108, 108>>
      [] kind = "notJson" -> <<111, 111, 112, 115>>
      [] OTHER -> \* {"name":"g","username":"u","password":"p"}
           <<123, 34, 110, 97, 109, 101, 34, 58, 34, 103, 34, 44, 34, 117, 115, 101, 114, 110, 97, 109, 101, 34, 58, 34, 117, 34, 44, 34, 112, 97, 115, 115, 119, 111, 114, 100, 34, 58, 34, 112, 34, 125>>

\* JSON.parse on the texts above: the properties of the object that the
\* callback reads; SyntaxError on anything else.
JsonParse(text) ==
    IF text = Payload("full")
    THEN [ok |-> TRUE, object |-> TRUE, name |-> <<103>>, username |-> <<117>>,
          password |-> <<112>>]
    ELSE IF text = Payload("unnamed")
    THEN [ok |-> TRUE, object |-> TRUE, username |-> <<117>>, password |-> <<112>>]
    ELSE IF text = Payload("null") THEN [ok |-> TRUE, object |-> FALSE]
    ELSE [ok |-> FALSE, error |-> "SyntaxError"]

\* A fetched secret of a kind ("full", "unnamed", "null", "notJson",
\* "otherKey", "cut") with the key in use: encrypted with this key, with
\* another key ("otherKey"), or with its encryptedData cut to a text that
\* is no base64 ("cut").
SecretDTO(kind, id, key) ==
    LET used == IF kind = "otherKey" THEN [key EXCEPT !.bits = @ + 1] ELSE key
        out == encryptData(used, Payload(kind), [i \in 1..IV_LENGTH |-> i])
    IN  [id |-> id,
         encryptedData |-> IF kind = "cut" THEN SubSeq(out.encrypted, 1, 5)
                           ELSE out.encrypted,
         iv |-> out.iv]

\* A callback without its catch block.
DecryptSecret_NoCatch(key, s) ==
    LET plain == decryptData(key, s.encryptedData, s.iv)
        parsed == IF plain.ok THEN JsonParse(plain.plaintext) ELSE plain
    IN  IF plain.ok /\ parsed.ok /\ parsed.object
        THEN [id |-> s.id,
              name |-> IF "name" \in DOMAIN parsed /\ parsed.name # <<>>
                       THEN parsed.name
                       ELSE <<83, 101, 99, 114, 101, 116, 32>>
                            \o SubSeq(s.id, 1, Min(8, Len(s.id))),
              username |-> parsed.username,
              password |-> parsed.password]
        ELSE [rejected |-> TRUE]

\* The callback of rawSecrets.map: the decrypted entry, or the placeholder
\* when decryptData, JSON.parse or the read of parsed.name throws.
DecryptSecret(key, s) ==
    LET entry == DecryptSecret_NoCatch(key, s)
    IN  IF "rejected" \in DOMAIN entry
        THEN [id |-> s.id,
              name |-> <<69, 110, 99, 114, 121, 112, 116, 101, 100, 58, 32>> \o SubSeq(s.id, 1, Min(8, Len(s.id)))
                       \o <<46, 46, 46>>]
        ELSE entry

ListingCall(kinds) ==
    LET key == [alg |-> "AES-GCM", bits |-> 1, extractable |-> TRUE]
    IN  [pc |-> "map", key |-> key, kinds |-> kinds,
         rawSecrets |-> [i \in 1..Len(kinds) |-> SecretDTO(kinds[i], SecretId(i), key)],
         settled |-> [i \in 1..Len(kinds) |-> [pending |-> TRUE]],
         secrets |-> <<>>]

InitListing ==
    /\ PopupInit
    /\ cipher = NoCall
    /\ \E n \in 0..MaxSecrets :
         listing \in {ListingCall(kinds) :
                        kinds \in [1..n -> {"full", "unnamed", "null", "notJson",
                                            "otherKey", "cut"}]}
    /\ clip = NoCall
    /\ match = NoCall

\* One callback settles.
Listing_Settle(i) ==
    /\ listing.pc = "map"
    /\ i \in DOMAIN listing.settled
    /\ "pending" \in DOMAIN listing.settled[i]
    /\ listing' = [listing EXCEPT
                     !.settled[i] = DecryptSecret(listing.key, listing.rawSecrets[i])]
    /\ UNCHANGED <<vars, cipher, clip, match>>

\* Promise.all: fulfilled with the entries in the order of rawSecrets when
\* every callback is fulfilled, rejected when one is rejected (loadSecrets
\* then logs the error and leaves the list as it was).
Listing_SetSecrets ==
    /\ listing.pc = "map"
    /\ IF \E i \in DOMAIN listing.settled : "rejected" \in DOMAIN listing.settled[i]
       THEN listing' = [listing EXCEPT !.pc = "aborted"]
       ELSE /\ \A i \in DOMAIN listing.settled : "pending" \notin DOMAIN listing.settled[i]
            /\ listing' = [listing EXCEPT !.pc = "done", !.secrets = listing.settled]
    /\ UNCHANGED <<vars, cipher, clip, match>>

NextListing ==
    \/ \E i \in 1..MaxSecrets : Listing_Settle(i)
    \/ Listing_SetSecrets

SpecListing == InitListing /\ [][NextListing]_listing

(***************************************************************************)
(* copyToClipboard (security module): the system clipboard, the writes of  *)
(* the user, and one clear timer per copy.  A timer callback is suspended  *)
(* at its await of readText and, when the text read is its own, at its     *)
(* await of writeText('').  Every write carries a stamp, its number in the *)
(* order of the writes, so that a later write can be told from an earlier. *)
(* handleFill arms every timer with the same delay, so the callbacks start *)
(* in the order of the copies.                                              *)
(***************************************************************************)
MaxCopies == 2
MaxUserWrites == 2

\* The secrets that are copied, and what the user copies elsewhere.
ClipTexts == {"T", "U"}
UserTexts == {"X"}

InitClip ==
    /\ PopupInit
    /\ cipher = NoCall
    /\ listing = NoCall
    /\ \E c \in UserTexts \cup {""} :
         clip = [pc |-> "run", content |-> c, stamp |-> 0, by |-> "user",
                 userWrites |-> 0, timers |-> <<>>, thrown |-> FALSE]
    /\ match = NoCall

\* copyToClipboard(text): writeText(text) is issued and not awaited (the
\* clipboard takes the text), and the timer is armed.
Clip_Copy(text) ==
    /\ clip.pc = "run"
    /\ Len(clip.timers) < MaxCopies
    /\ clip' = [clip EXCEPT
                  !.content = text, !.stamp = @ + 1, !.by = "copy",
                  !.timers = Append(@, [pc |-> "armed", text |-> text,
                                        copied |-> clip.stamp + 1, current |-> "",
                                        over |-> 0, erased |-> "",
                                        outcome |-> "pending"])]
    /\ UNCHANGED <<vars, cipher, listing, match>>

\* The user copies something else, anywhere.
Clip_UserWrite(text) ==
    /\ clip.pc = "run"
    /\ clip.userWrites < MaxUserWrites
    /\ clip' = [clip EXCEPT !.content = text, !.stamp = @ + 1, !.by = "user",
                            !.userWrites = @ + 1]
    /\ UNCHANGED <<vars, cipher, listing, match>>

\* The timer of copy i fires: readText() gives the content of the
\* clipboard, or is refused and the catch block ends the callback.
Clip_TimerRead(i) ==
    /\ clip.pc = "run"
    /\ i \in DOMAIN clip.timers
    /\ clip.timers[i].pc = "armed"
    /\ \A j \in 1..(i - 1) : clip.timers[j].pc # "armed"
    /\ \/ clip' = [clip EXCEPT !.timers[i].pc = "read",
                               !.timers[i].current = clip.content]
       \/ clip' = [clip EXCEPT !.timers[i].pc = "done",
                               !.timers[i].outcome = "readFailed"]
    /\ UNCHANGED <<vars, cipher, listing, match>>

\* The callback continues after readText: writeText('') when the text read
\* is the text of the copy.  over and erased are the stamp and the text of
\* the content replaced.
Clip_TimerClear(i) ==
    /\ clip.pc = "run"
    /\ i \in DOMAIN clip.timers
    /\ clip.timers[i].pc = "read"
    /\ IF clip.timers[i].current = clip.timers[i].text
       THEN clip' = [clip EXCEPT !.content = "", !.stamp = @ + 1, !.by = "timer",
                                !.timers[i].pc = "done",
                                !.timers[i].over = clip.stamp,
                                !.timers[i].erased = clip.content,
                                !.timers[i].outcome = "cleared"]
       ELSE clip' = [clip EXCEPT !.timers[i].pc = "done",
                                !.timers[i].outcome = "kept"]
    /\ UNCHANGED <<vars, cipher, listing, match>>

NextClip ==
    \/ \E text \in ClipTexts : Clip_Copy(text)
    \/ \E text \in UserTexts : Clip_UserWrite(text)
    \/ \E i \in 1..MaxCopies : Clip_TimerRead(i)
    \/ \E i \in 1..MaxCopies : Clip_TimerClear(i)

SpecClip == InitClip /\ [][NextClip]_clip

(***************************************************************************)
(* checkDomainMatch (security module) on pairs of URLs.  URLs and          *)
(* hostnames are sequences of character codes.                             *)
(***************************************************************************)
MaxHost == 3

\* extractDomain: the hostname of new URL(url) in lower case, '' when the
\* constructor throws.  The URLs here are "https://" host [path] (the
\* hostname ends at the first "/"), and texts without a scheme, on which
\* the constructor throws.
extractDomain(url) ==
    LET scheme == <<104, 116, 116, 112, 115, 58, 47, 47>>
        rest == SubSeq(url, Len(scheme) + 1, Len(url))
        stops == {i \in 1..Len(rest) : rest[i] = 47}
        end == IF stops = {} THEN Len(rest)
               ELSE (CHOOSE i \in stops : \A k \in stops : i <= k) - 1
    IN  IF Len(url) > Len(scheme) /\ SubSeq(url, 1, Len(scheme)) = scheme /\ end > 0
        THEN [i \in 1..end |->
                 IF rest[i] >= 65 /\ rest[i] <= 90 THEN rest[i] + 32 ELSE rest[i]]
        ELSE <<>>

\* A distance that counts insertions and deletions only.
levenshteinDistance_NoSubstitution(a, b) ==
    LET matrix[i \in 0..Len(b), j \in 0..Len(a)] ==
            IF i = 0 THEN j
            ELSE IF j = 0 THEN i
            ELSE IF b[i] = a[j] THEN matrix[i - 1, j - 1]
            ELSE Min(matrix[i, j - 1] + 1, matrix[i - 1, j] + 1)
    IN  matrix[Len(b), Len(a)]

\* levenshteinDistance: the matrix of the code, row i for the first i
\* characters of b and column j for the first j characters of a.
levenshteinDistance(a, b) ==
    LET matrix[i \in 0..Len(b), j \in 0..Len(a)] ==
            IF i = 0 THEN j
            ELSE IF j = 0 THEN i
            ELSE IF b[i] = a[j] THEN matrix[i - 1, j - 1]
            ELSE Min(matrix[i - 1, j - 1] + 1,
                     Min(matrix[i, j - 1] + 1, matrix[i - 1, j] + 1))
    IN  matrix[Len(b), Len(a)]

\* checkDomainMatch.  The phishing warning is given as the pieces of its
\* text around the two hostnames.
checkDomainMatch(currentUrl, storedUrl) ==
    LET currentDomain == extractDomain(currentUrl)
        storedDomain == extractDomain(storedUrl)
        distance == levenshteinDistance(currentDomain, storedDomain)
    IN  IF currentDomain = <<>> \/ storedDomain = <<>>
        THEN [isMatch |-> FALSE, warning |-> <<"Invalid URL">>]
        ELSE IF currentDomain = storedDomain THEN [isMatch |-> TRUE]
        ELSE IF distance <= 2 /\ distance > 0
        THEN [isMatch |-> FALSE,
              warning |-> <<"Possible phishing! Domain", currentDomain,
                            "looks similar to stored", storedDomain>>]
        ELSE [isMatch |-> FALSE, warning |-> <<"Domain mismatch">>]

\* The URLs of a call: for a hostname over "a" and "b" of up to MaxHost
\* letters, written in lower or in upper case, "https://" hostname with or
\* without the path "/a"; and the hostname alone (no scheme).  host is the
\* lowercase hostname the URL was written from, '' when it has none.
MatchUrls ==
    LET hosts == UNION {[1..n -> {97, 98}] : n \in 1..MaxHost}
    IN  {[url |-> <<104, 116, 116, 112, 115, 58, 47, 47>> \o [i \in 1..Len(h) |-> h[i] - up] \o path,
          host |-> h] : h \in hosts, up \in {0, 32}, path \in {<<>>, <<47, 97>>}}
        \cup {[url |-> h, host |-> <<>>] : h \in {<<>>, <<97, 98>>}}

InitMatch ==
    /\ PopupInit
    /\ cipher = NoCall
    /\ listing = NoCall
    /\ clip = NoCall
    /\ match \in {[pc |-> "call", current |-> c, stored |-> st,
                    result |-> [isMatch |-> FALSE]] : c \in MatchUrls, st \in MatchUrls}

Match_Check ==
    /\ match.pc = "call"
    /\ match' = [match EXCEPT
                   !.pc = "done",
                   !.result = checkDomainMatch(match.current.url, match.stored.url)]
    /\ UNCHANGED <<vars, cipher, listing, clip>>

NextMatch == Match_Check

SpecMatch == InitMatch /\ [][NextMatch]_match

(***************************************************************************)
(* Properties.                                                             *)
(***************************************************************************)
\* The wait the specification requires after the count c, in milliseconds.
RequiredWaitMs(c) == (IF 2^c < 300 THEN 2^c ELSE 300) * 1000

\* C1.  Backoff gate: an unlock attempt issued with a failure count c >= 1
\* before lastFailureTimestamp + min(2^c, 300) s is rejected: verifyPin is
\* not started (no hash comparison), the durable store (count and
\* lastFailureTimestamp) is left as it is, and the remaining wait
\* lastFailureTimestamp + delay - now, a positive number, is reported.
C1_BackoffGateRejects ==
    [][\A h \in Handlers :
        (/\ Unlock_BackoffGate(h)
         /\ unlock[h].attempts >= 1
         /\ Now < unlock[h].lastFailed + RequiredWaitMs(unlock[h].attempts))
        => (/\ unlock'[h] = IdleUnlock
            /\ local' = local
            /\ popup'.backoffRemaining =
                  unlock[h].lastFailed + RequiredWaitMs(unlock[h].attempts) - Now
            /\ popup'.backoffRemaining > 0
            /\ popup'.error = BackoffMessage(popup'.backoffRemaining))]_vars

\* An attempt has just been rejected inside the window of a count >= 1.
C1_Rejected ==
    /\ popup.screen = "pin-unlock"
    /\ NumOrZero(local, FAILED_ATTEMPTS_KEY) >= 1
    /\ Now < NumOrZero(local, LAST_FAILED_TIME_KEY)
               + RequiredWaitMs(NumOrZero(local, FAILED_ATTEMPTS_KEY))
    /\ popup.backoffRemaining > 0
    /\ popup.error = BackoffMessage(popup.backoffRemaining)

FailedAttemptState == {FAILED_ATTEMPTS_KEY, LAST_FAILED_TIME_KEY}
C3_LockoutWipesAll ==
    [][\A h \in Handlers :
        verifyPin_CheckMax(h) =>
            IF unlock[h].nth >= MAX_FAILED_ATTEMPTS
            THEN (DOMAIN local') \cap ({PIN_KEY} \cup FailedAttemptState) = {}
            ELSE local' = local]_vars

\* C4.  A verification whose hash equals the stored PinRecord sets the
\* persisted count to 0 whatever it was, and no backoff window is active
\* right after it: Date.now() is not before lastFailureTimestamp plus the
\* wait the count requires.
C4_SuccessResetsCount ==
    [][\A h \in Handlers :
        (verifyPin_Compare(h) /\ unlock[h].stored = hashPin(unlock[h].pin))
        => (/\ Has(local', FAILED_ATTEMPTS_KEY)
            /\ local'[FAILED_ATTEMPTS_KEY] = 0
            /\ ~isBackoffActive(NumOrZero(local', FAILED_ATTEMPTS_KEY),
                                NumOrZero(local', LAST_FAILED_TIME_KEY), Now).active
            /\ \A t \in {Now, NumOrZero(local', LAST_FAILED_TIME_KEY)} :
                  ~isBackoffActive(NumOrZero(local', FAILED_ATTEMPTS_KEY),
                                   NumOrZero(local', LAST_FAILED_TIME_KEY), t).active)]_vars

\* A verification has just succeeded over a count that was not 0.
C4_SuccessAfterFailures ==
    /\ last[1] = "verifyPin_Match"
    /\ last[2] >= 1
    /\ NumOrZero(local, FAILED_ATTEMPTS_KEY) = 0

\* C5 as stated.  The expiry includes its boundary: checkSession finds the
\* session expired exactly when Date.now() >= lastActivityTimestamp +
\* timeoutMinutes * 60000.
C5_ExpiryInclusive ==
    [][Check_GetKey =>
        (check'.expired <=> Now >= check.la + check.timeout * 60000)]_vars

\* C5, amended.  The expiry excludes its boundary: at Date.now() ==
\* lastActivityTimestamp + timeoutMinutes * 60000 and before it the session
\* is not expired, from one millisecond after it is.
C5_ExpiryExclusive ==
    [][Check_GetKey =>
        /\ Now <= check.la + check.timeout * 60000 => ~check'.expired
        /\ Now >= check.la + check.timeout * 60000 + 1 => check'.expired]_vars

\* checkSession has found the session not expired at the boundary instant.
C5_AtBoundaryNotExpired ==
    /\ check.pc = "getKey"
    /\ Has(session, LAST_ACTIVITY_KEY)
    /\ Now = session[LAST_ACTIVITY_KEY] + getLockTimeout(local) * 60000
    /\ ~check.expired

\* What isSessionExpired would return now.
SessionExpired ==
    isSessionExpired(NumOrZero(session, LAST_ACTIVITY_KEY), getLockTimeout(local), Now)

\* C6.  Auto-lock on every use of the cached key: while isSessionExpired
\* would return true and no login or PIN verification is under way,
\* loadSecrets (started by a route to the main view or by Refresh) does not
\* get the SessionKey to decrypt with.
C6_NoKeyUseWhenExpired ==
    [][(/\ Load_GetKey
        /\ SessionExpired
        /\ login.pc = "idle"
        /\ \A h \in Handlers : unlock[h].pc = "idle")
       => loads'.decrypting = loads.decrypting]_vars

C8_LockDestroysKey ==
    [][ClickLockVault => ~Has(session', SESSION_KEY_NAME)]_vars

\* The cached key entry of a session store.
KeyEntry(store) == IF Has(store, SESSION_KEY_NAME) THEN <<store[SESSION_KEY_NAME]>> ELSE <<>>

\* C9 as stated.  The cached key is removed only by secureLogout /
\* clearKeyFromSession or by the end of the browser session.
C9_KeyRemovedOnlyByLogout ==
    [][(KeyEntry(session) # <<>> /\ KeyEntry(session') = <<>>)
       => (clearKeyFromSession \/ secureLogout_Clear \/ SessionEnd)]_vars

\* C9, amended.  The cached key is removed only by secureLogout /
\* clearKeyFromSession, by the end of the browser session, or by the
\* chrome.storage.session.clear() of clearSecurityData at the failure that
\* triggers the wipe; it is replaced only by a login storing a key; every
\* other step, the other steps of a PIN verification and isSessionExpired
\* among them, leaves the entry unchanged.
C9_KeyRemovedOnlyByLogoutOrWipe ==
    [][/\ (KeyEntry(session) # <<>> /\ KeyEntry(session') = <<>>)
            => \/ clearKeyFromSession \/ secureLogout_Clear \/ SessionEnd
               \/ \E h \in Handlers : clearSecurityData_Session(h)
       /\ (KeyEntry(session') # <<>> /\ KeyEntry(session') # KeyEntry(session))
            => Login_StoreKey
       /\ \A h \in Handlers :
            (\/ Unlock_BackoffGate(h) \/ verifyPin_Compare(h)
             \/ verifyPin_UpdateLastActivity(h) \/ verifyPin_Increment(h)
             \/ verifyPin_CheckMax(h) \/ Unlock_GetKey(h))
            => KeyEntry(session') = KeyEntry(session)
       /\ (Check_IsSessionExpired \/ Check_GetKey)
            => KeyEntry(session') = KeyEntry(session)]_vars

\* The wipe has just removed a cached key.
C9_WipeRemovedKey ==
    /\ last = <<"clearSecurityData_Session", 1>>
    /\ KeyEntry(session) = <<>>
    /\ \E h \in Handlers : unlock[h].pc = "cleared"

\* The entries lib/security keeps in chrome.storage.local.
DurableKeys == {PIN_KEY, FAILED_ATTEMPTS_KEY, LAST_FAILED_TIME_KEY, LOCK_TIMEOUT_KEY}
\* The encodings of the keys a login can derive.
KeyMaterial == {KeyJson(deriveKey(p, base64ToArrayBuffer(t))) : p \in Passwords, t \in {u \in Salts : Base64Valid(u)}}

\* C10.  The durable store holds no SessionKey material: its entries are
\* among the PIN hash, the failed-attempt count, the last-failure time and
\* the lock-timeout minutes, holding a hash of a PIN and three numbers, and
\* the encoded key is in the session store only.
C10_NoKeyInDurableStore ==
    /\ DOMAIN local \subseteq DurableKeys
    /\ ~Has(local, SESSION_KEY_NAME)
    /\ Has(local, PIN_KEY) => local[PIN_KEY] \in {hashPin(pair[1]) : pair \in PinPairs}
    /\ \A k \in DOMAIN local \ {PIN_KEY} : local[k] \in Nat
    /\ Has(session, SESSION_KEY_NAME) => session[SESSION_KEY_NAME] \in KeyMaterial

\* A key is cached while all four durable entries are written.
C10_AllDurableEntriesWithKey ==
    /\ Has(session, SESSION_KEY_NAME)
    /\ DOMAIN local = DurableKeys

\* C11.  Derive-and-cache round trip: for every password and valid salt,
\* storeKeyInSession completes with the derived key exported and written to
\* the session store, and getKeyFromSession then returns a key with the
\* derived bits.
C11_DeriveAndCacheRoundTrip ==
    [][Login_StoreKey =>
        /\ login'.pc = "stored"
        /\ getKeyFromSession(session') # NoKey
        /\ getKeyFromSession(session')[1].bits = login.key[1].bits]_vars

\* The views that show no secret.
LockedViews == {"pin-unlock", "login"}

\* C12.  PIN unlock outcomes.  An attempt opens the main view only if the
\* hash of its PIN was the stored PinRecord and getKeyFromSession found a
\* SessionKey; with the hash matching and no SessionKey it opens the login
\* view with the session-expired message; with the hash not matching it
\* goes on to count the failure and leaves the view as it is, which for an
\* attempt no other attempt overlapped is a locked view.  From the
\* pin-unlock view nothing else opens the main view.
C12_PinUnlockOutcomes ==
    [][\A h \in Handlers :
        /\ Unlock_GetKey(h) =>
              (unlock'[h].key # NoKey <=> Has(session, SESSION_KEY_NAME))
        /\ Unlock_Route(h) =>
              /\ unlock[h].matched
              /\ IF unlock[h].key # NoKey
                 THEN popup'.screen = "main"
                 ELSE /\ popup'.screen = "login"
                      /\ popup'.error = <<"Session expired. Please login again.", 0>>
              /\ unlock[h].alone =>
                    (unlock[h].key # NoKey <=> Has(session, SESSION_KEY_NAME))
        /\ (verifyPin_Compare(h) /\ unlock[h].stored # hashPin(unlock[h].pin)) =>
              (unlock'[h].pc = "increment" /\ popup' = popup)
        /\ Unlock_Invalid(h) =>
              /\ ~unlock[h].matched
              /\ popup'.screen = popup.screen
              /\ unlock[h].alone => popup.screen \in LockedViews
        /\ (popup.screen = "pin-unlock" /\ popup'.screen = "main") =>
              \E g \in Handlers :
                  Unlock_Route(g) /\ unlock[g].matched /\ unlock[g].key # NoKey]_vars

\* A PIN matched with no SessionKey cached: the login view with the message.
C12_LoginRequired ==
    /\ popup.screen = "login"
    /\ popup.error = <<"Session expired. Please login again.", 0>>
    /\ Has(local, PIN_KEY)
    /\ ~Has(session, SESSION_KEY_NAME)

\* C13.  The wipe is irreversible: from the wipe until a new PIN is stored
\* no step opens the main view, whatever PIN is entered, and the new PIN is
\* stored only after a login that has stored a key.
C13_WipeIrreversible ==
    [][/\ (auth.wiped # "no" /\ popup.screen # "main") => popup'.screen # "main"
       /\ setPin_Store => auth.wiped \in {"no", "relogged"}]_vars

\* C14.  The attempt that triggers the wipe has an outcome of its own:
\* verifyPin's result is not that of an ordinary mismatch, after which
\* handlePinUnlock goes on to getBackoffDelay, and the feedback shown for it
\* is shown for no attempt that did not wipe (attempts that no other attempt
\* overlapped).
C14_WipeFlaggedDistinctly ==
    [][\A h \in Handlers :
        /\ Unlock_AfterClear(h) => unlock'[h].pc # "getBackoffDelay"
        /\ (Unlock_Invalid(h) /\ unlock[h].alone) =>
              (unlock[h].nth >= MAX_FAILED_ATTEMPTS
                 <=> popup'.error = <<"Invalid PIN. 5 failed attempts will clear data.", 0>>)]_vars

\* C16 (as stated): decrypting what encryptData returned, with the same key,
\* gives the plaintext back for every plaintext; with another key, or with
\* an altered ciphertext or nonce, decryptData fails and returns no
\* plaintext.
C16_CipherRoundTrip ==
    cipher.pc = "decrypted"
        => IF cipher.changed = "nothing"
           THEN cipher.result = [ok |-> TRUE, plaintext |-> cipher.plaintext]
           ELSE ~cipher.result.ok

\* A string that TextEncoder and TextDecoder carry unchanged: no unpaired
\* surrogate and no leading U+FEFF.
RECURSIVE WellFormed(_)
WellFormed(s) ==
    IF Len(s) = 0 THEN TRUE
    ELSE IF IsHighSurrogate(s[1])
    THEN Len(s) >= 2 /\ IsLowSurrogate(s[2]) /\ WellFormed(SubSeq(s, 3, Len(s)))
    ELSE ~IsLowSurrogate(s[1]) /\ WellFormed(Tail(s))
Carried(s) == WellFormed(s) /\ (Len(s) = 0 \/ s[1] # 65279)

\* C16 (amended): decrypting what encryptData returned, with the same key,
\* succeeds, and gives the plaintext back when the plaintext has no unpaired
\* surrogate and no leading U+FEFF; with another key, or with a ciphertext
\* or nonce text that no longer stands for the same bytes, decryptData
\* fails; whenever decryptData succeeds the plaintext it returns is the
\* decoding of the encoding of the original.
C16_CipherRoundTripCarried ==
    cipher.pc = "decrypted"
        => /\ cipher.changed = "nothing" => cipher.result.ok
           /\ (cipher.changed = "nothing" /\ Carried(cipher.plaintext))
                 => cipher.result = [ok |-> TRUE, plaintext |-> cipher.plaintext]
           /\ cipher.changed = "key" => ~cipher.result.ok
           /\ (Base64Valid(cipher.given.encrypted)
                 => base64ToArrayBuffer(cipher.given.encrypted)
                      # base64ToArrayBuffer(cipher.encrypted))
                 => ~cipher.result.ok
           /\ (Base64Valid(cipher.given.iv)
                 => base64ToArrayBuffer(cipher.given.iv)
                      # base64ToArrayBuffer(cipher.iv))
                 => ~cipher.result.ok
           /\ cipher.result.ok
                 => cipher.result.plaintext = TextDecode(TextEncode(cipher.plaintext))

\* A text of three UTF-8 bytes came back from a decryption with the same
\* key and the returned texts.
C16_EuroCameBack ==
    /\ cipher.pc = "decrypted"
    /\ cipher.changed = "nothing"
    /\ cipher.plaintext = <<8364>>
    /\ cipher.result = [ok |-> TRUE, plaintext |-> <<8364>>]

\* The entry the list must show for a fetched secret of a kind: the
\* placeholder with the id and no username or password for the kinds that
\* fail to decrypt or to parse, the decrypted fields for the others.
ExpectedEntry(kind, id) ==
    LET id8 == SubSeq(id, 1, IF Len(id) < 8 THEN Len(id) ELSE 8)
    IN  IF kind = "full"
        THEN [id |-> id, name |-> <<103>>, username |-> <<117>>, password |-> <<112>>]
        ELSE IF kind = "unnamed"
        THEN [id |-> id, name |-> <<83, 101, 99, 114, 101, 116, 32>> \o id8,
              username |-> <<117>>, password |-> <<112>>]
        ELSE [id |-> id, name |-> <<69, 110, 99, 114, 121, 112, 116, 101, 100, 58, 32>> \o id8 \o <<46, 46, 46>>]

\* C15: for every fetched list and every subset of it that fails to decrypt
\* or to parse, the listing is never aborted and hands setSecrets a list of
\* the same length and order, in which each failing secret is the
\* placeholder with its id and no username or password and every other
\* secret is fully decrypted.
C15_FailureIsolatedPerSecret ==
    /\ listing.pc \notin {"none", "done"}
         => /\ listing.pc = "map"
            /\ \A i \in DOMAIN listing.settled :
                 "rejected" \notin DOMAIN listing.settled[i]
    /\ listing.pc = "done"
         => /\ Len(listing.secrets) = Len(listing.kinds)
            /\ \A i \in 1..Len(listing.kinds) :
                 /\ listing.secrets[i] = ExpectedEntry(listing.kinds[i], SecretId(i))
                 /\ listing.kinds[i] \in {"null", "notJson", "otherKey", "cut"}
                      => DOMAIN listing.secrets[i] = {"id", "name"}

\* A list of three was shown whose first secret decrypted, whose second
\* was encrypted with another key and whose third did not parse.
C15_MixedListShown ==
    /\ listing.pc = "done"
    /\ listing.kinds = <<"full", "otherKey", "notJson">>
    /\ Len(listing.secrets) = 3
    /\ DOMAIN listing.secrets[1] = {"id", "name", "username", "password"}
    /\ DOMAIN listing.secrets[2] = {"id", "name"}

\* C17: when the scheduled clear of a copy of T has run, the clipboard no
\* longer holds the T of that copy, unless the user overwrote the clipboard with different
\* content before the clear ran, and then the clipboard is left untouched;
\* a failing clipboard read leaves the clipboard untouched and raises no
\* error.
C17_ClipboardAutoClear ==
    [][\A i \in DOMAIN clip.timers :
         /\ (clip.timers[i].pc # "done" /\ clip'.timers[i].pc = "done")
              => /\ ~clip'.thrown
                 /\ clip'.timers[i].outcome = "readFailed" => clip'.content = clip.content
                 /\ clip'.timers[i].outcome # "readFailed"
                      => IF clip.by = "user" /\ clip.stamp > clip.timers[i].copied
                            /\ clip.content # clip.timers[i].text
                         THEN clip'.content = clip.content
                         ELSE clip'.stamp # clip.timers[i].copied]_clip

\* C18: in every interleaving of copies, user writes and clear timers, the
\* clear of a timer never overwrites clipboard content that was written
\* after the copy of that timer (checked here for newer content that
\* differs from the text of the timer).
C18_NoStaleClear ==
    \A i \in DOMAIN clip.timers :
        (clip.timers[i].outcome = "cleared" /\ clip.timers[i].erased # clip.timers[i].text)
            => clip.timers[i].over <= clip.timers[i].copied

\* C20: within one popup the read-modify-write of verifyPin on the count
\* of failed attempts loses no update: in every interleaving, each failing
\* invocation that writes the count makes the persisted count one more than
\* it was, so that k failing invocations add exactly k.
C20_NoLostUpdate ==
    [][\A h \in Handlers :
         verifyPin_Increment(h)
            => NumOrZero(local', FAILED_ATTEMPTS_KEY)
                 = NumOrZero(local, FAILED_ATTEMPTS_KEY) + 1]_vars

\* The reference edit distance: the least number of insertions, deletions
\* and substitutions of one character that turn a into b.
RECURSIVE EditDistance(_, _)
EditDistance(a, b) ==
    IF Len(a) = 0 THEN Len(b)
    ELSE IF Len(b) = 0 THEN Len(a)
    ELSE Min(EditDistance(Tail(a), Tail(b)) + (IF a[1] = b[1] THEN 0 ELSE 1),
             Min(EditDistance(Tail(a), b) + 1, EditDistance(a, Tail(b)) + 1))

\* C19: for all pairs of URLs, checkDomainMatch gives isMatch false with
\* 'Invalid URL' when a hostname cannot be extracted, isMatch true without
\* warning when the lowercase hostnames are equal, and otherwise isMatch
\* false with the phishing warning naming both hostnames exactly when their
\* edit distance d satisfies 0 < d <= 2 and 'Domain mismatch' for every
\* other distance; levenshteinDistance equals the reference edit distance.
C19_DomainMatchClassification ==
    match.pc = "done"
        => LET c == match.current.host
               st == match.stored.host
           IN  /\ levenshteinDistance(c, st) = EditDistance(c, st)
               /\ match.result =
                     IF c = <<>> \/ st = <<>>
                     THEN [isMatch |-> FALSE, warning |-> <<"Invalid URL">>]
                     ELSE IF c = st THEN [isMatch |-> TRUE]
                     ELSE IF EditDistance(c, st) > 0 /\ EditDistance(c, st) <= 2
                     THEN [isMatch |-> FALSE,
                           warning |-> <<"Possible phishing! Domain", c,
                                         "looks similar to stored", st>>]
                     ELSE [isMatch |-> FALSE, warning |-> <<"Domain mismatch">>]

\* "https://AB/a" was checked against the stored "https://ba": two edits
\* apart, reported as possible phishing.
C19_TwoEditsFlagged ==
    /\ match.pc = "done"
    /\ match.current.url = <<104, 116, 116, 112, 115, 58, 47, 47, 65, 66, 47, 97>>
    /\ match.stored.url = <<104, 116, 116, 112, 115, 58, 47, 47, 98, 97>>
    /\ match.result = [isMatch |-> FALSE,
                       warning |-> <<"Possible phishing! Domain", <<97, 98>>,
                                     "looks similar to stored", <<98, 97>>>>]

\* C21: the master password is held only while the key is derived: in
\* every state in which the login handler of the open popup has derived
\* and cached the key and has finished, neither the password input state
\* nor the temporary master-password state holds the master password,
\* whether or not a PIN is configured.
C21_MasterPasswordNotRetained ==
    ("login" \in auth.opened /\ login.pc = "idle")
        => popup.password = "" /\ popup.masterPassword = ""

\* C22: when the sign-in succeeds but the salt of the user is absent or
\* cannot be decoded, no key is derived, the cached key and the time of the
\* last activity are left unchanged, the popup stays on the login view
\* with an error message, and the login handler ends and is started again
\* only by a click on Unlock Vault; a key is derived only from a salt whose
\* characters are all base64 characters.
C22_SaltFailureIsConfigurationFailure ==
    [][/\ (Login_NoSalt \/ (Login_Salt /\ login'.pc # "deriveKey"))
            => /\ login' = IdleLogin
               /\ session' = session
               /\ local' = local
               /\ popup.screen = "login" /\ popup'.screen = "login"
               /\ popup'.error[1] # ""
               /\ ~popup'.loading
       /\ (Login_Salt /\ login'.pc = "deriveKey")
            => \E salt \in Salts :
                 /\ \A i \in 1..Len(salt) : Base64Value(salt[i]) >= 0 \/ salt[i] = 61
                 /\ login'.key[1].bits[2] = base64ToArrayBuffer(salt)
       /\ (login.pc = "idle" /\ login'.pc # "idle") => ClickLogin]_vars

\* The salt could not be decoded: the login view shows the message of the
\* exception, no login is under way and no key is cached.
C22_UndecodableSaltReported ==
    /\ popup.screen = "login"
    /\ popup.error = <<"[5] The string to be decoded is not correctly encoded.", 0>>
    /\ login = IdleLogin
    /\ ~Has(session, SESSION_KEY_NAME)

\* C23: no failure is silent: a failed login, a failed or keyless listing
\* of the secrets and a rejected or wrong PIN each end with a non-empty
\* error message in the popup.
C23_NoSilentFailure ==
    [][/\ (login.pc # "idle" /\ login'.pc = "idle" /\ popup'.screen = "login" /\ Open')
            => popup'.error[1] # ""
       /\ Load_FetchFailed => popup'.error[1] # ""
       /\ (Load_GetKey /\ getKeyFromSession(session) = NoKey) => popup'.error[1] # ""
       /\ \A h \in Handlers : Unlock_Invalid(h) => popup'.error[1] # ""]_vars

\* C24: backoff survives restarts: a session end that empties the volatile
\* store, and every step of a master-password login, leaves the persisted
\* failed-attempt count and lastFailureTimestamp as they are, so that
\* isBackoffActive answers after the step what it answered before it: a
\* window that was active is still active and ends at the same time.
C24_BackoffSurvivesRestart ==
    [][(\/ SessionEnd
        \/ ClickLogin \/ Login_SignInFailed \/ Login_SignedIn \/ Login_NoSalt
        \/ Login_Salt \/ Login_StoreKey \/ Login_UpdateLastActivity
        \/ Login_HasPin \/ handleLogin_Route)
        => /\ \A k \in FailedAttemptState :
                /\ Has(local', k) <=> Has(local, k)
                /\ NumOrZero(local', k) = NumOrZero(local, k)
           /\ isBackoffActive(NumOrZero(local', FAILED_ATTEMPTS_KEY),
                               NumOrZero(local', LAST_FAILED_TIME_KEY), Now)
                = isBackoffActive(NumOrZero(local, FAILED_ATTEMPTS_KEY),
                                  NumOrZero(local, LAST_FAILED_TIME_KEY), Now)
           /\ (SessionEnd => session' = EmptyStore)]_vars

\* The volatile store has been emptied and holds nothing but the key that
\* a master-password login under way has just cached; a PIN is stored and
\* the backoff window of a wrong PIN is still running.
C24_BackoffActiveAcrossRestartAndLogin ==
    /\ login.pc = "stored"
    /\ ~Has(session, LAST_ACTIVITY_KEY)
    /\ Has(session, SESSION_KEY_NAME)
    /\ Has(local, PIN_KEY)
    /\ NumOrZero(local, FAILED_ATTEMPTS_KEY) >= 1
    /\ isBackoffActive(NumOrZero(local, FAILED_ATTEMPTS_KEY),
                        NumOrZero(local, LAST_FAILED_TIME_KEY), Now).active

\* C25: attempt-counter monotonicity: a step in which the persisted
\* failed-attempt count decreases or is removed is a successful PIN
\* verification or the removal by clearSecurityData; the write of a failed
\* verification increases the count by one; every other step leaves the
\* count as it is.
C25_AttemptCounterMonotone ==
    [][LET count == NumOrZero(local, FAILED_ATTEMPTS_KEY)
           count2 == NumOrZero(local', FAILED_ATTEMPTS_KEY)
           verified == \E h \in Handlers :
                          verifyPin_Compare(h) /\ unlock'[h].pc = "updateLastActivity"
           cleared == \E h \in Handlers :
                          verifyPin_CheckMax(h) /\ unlock'[h].pc = "clearSession"
           failed == \E h \in Handlers : verifyPin_Increment(h)
       IN  /\ (count2 < count \/ (Has(local, FAILED_ATTEMPTS_KEY)
                                     /\ ~Has(local', FAILED_ATTEMPTS_KEY)))
                => verified \/ cleared
           /\ failed => count2 = count + 1
           /\ ~(verified \/ cleared \/ failed)
                => /\ count2 = count
                   /\ Has(local', FAILED_ATTEMPTS_KEY) <=> Has(local, FAILED_ATTEMPTS_KEY)]_vars

C27_CountBelowMaxAtRest ==
    (\A h \in Handlers :
        unlock[h].pc \notin {"verifyPin", "updateLastActivity", "increment",
                             "written", "clearSession", "cleared"})
    => /\ NumOrZero(local, FAILED_ATTEMPTS_KEY) \in 0..(MAX_FAILED_ATTEMPTS - 1)
       /\ NumOrZero(local, FAILED_ATTEMPTS_KEY) >= 1 => Has(local, LAST_FAILED_TIME_KEY)
       /\ ~(NumOrZero(local, FAILED_ATTEMPTS_KEY) = MAX_FAILED_ATTEMPTS
             /\ Has(local, PIN_KEY))

\* C28: the backoff check and the verification are not separated by a
\* race: in every interleaving of unlock-handler invocations, a wrong PIN
\* is compared against the stored PinRecord only when every earlier wrong
\* comparison has recorded its failure and the wait that failure requires
\* is over, and the wrong comparisons since the last success, the recorded
\* ones and the one being made, number at most MAX_FAILED_ATTEMPTS.
C28_NoGateRace ==
    [][\A h \in Handlers :
        (/\ verifyPin_Compare(h)
         /\ unlock'[h].pc = "increment"
         /\ unlock[h].stored # <<>>)
        => /\ \A g \in Handlers \ {h} : unlock[g].pc # "increment"
           /\ ~isBackoffActive(NumOrZero(local, FAILED_ATTEMPTS_KEY),
                                NumOrZero(local, LAST_FAILED_TIME_KEY), Now).active
           /\ NumOrZero(local, FAILED_ATTEMPTS_KEY) + 1 <= MAX_FAILED_ATTEMPTS]_vars

====
